---------------------------- MODULE Spec2Model ----------------------------
(***************************************************************************)
(* Canvas compositing engine of rosepetal-image-engine: format             *)
(* negotiation, channel-format conversion, and the mosaic and advanced     *)
(* mosaic workers (transform, clipped placement, z-order).                 *)
(*                                                                         *)
(* A pixel buffer is represented by its channel layout, a sequence of      *)
(* channel tags: "B", "G", "R" colour planes, "A" an opaque alpha plane,   *)
(* "Y" a luma plane, "Yx" a luma computed with the red and blue weights    *)
(* exchanged, and "C1".."C4" the planes of an image whose colorSpace name  *)
(* the engine does not know.                                               *)
(***************************************************************************)
EXTENDS Integers, Sequences, FiniteSets, TLC

VARIABLES
    channels,        \* negotiation: the list of input formats
    negotiated,      \* negotiation: the result of each negotiator ("" = not run)
    convSrc,         \* conversion: the source image [format, lay]
    convTarget,      \* conversion: the requested target format
    convOut,         \* conversion: [by, ok, lay] (by = "" : not run)
    op,              \* compositing: "mosaic" or "advanced" ("" = no call)
    pc,              \* compositing: "call", "queued", "placing", "done", "error"
    images,          \* images_: sequence of [cols, rows]
    imageChannels,   \* imageChannels_: the format name of each image
    positions,       \* MosaicWorker::positions_
    imageConfigs,    \* AdvancedMosaicWorker::imageConfigs_
    normalized,      \* normalized_
    canvasChannel,   \* canvasChannel_
    canvas,          \* canvas_: [<<x, y>> -> pixel]
    nextIdx,         \* index of the next element of the sequential loops
    taken,           \* iterations of the parallel loop already handed out
    workers,         \* per thread of the parallel loop: [i, k]
    rsOp,            \* resize: "advanced" (a directive's resize step) or "resize"
    rsSrc,           \* resize: the source image size [cols, rows]
    rsReq,           \* resize: the requested size
    rsOut,           \* resize: [status, targetWidth, targetHeight] ("" = not run)
    rotOp,           \* rotation: "advanced" (a directive's rotate step) or "rotate"
    rotSrc,          \* rotation: the first input image
    rotImg,          \* rotation: the current image [cols, rows, px]
    rotLog,          \* rotation: the angles applied so far
    rotLast,         \* rotation: what the last step did
    backgroundColor, \* colour: the colour string, one character per element
    colourFormat,    \* colour: the format of the canvas or of the rotated image
    colourOp,        \* colour: "parse", "canvas" or "pad" ("" = not run)
    colourOut,       \* colour: [status, px]
    cropInput,       \* crop: input_ as [cols, rows]
    cropReq,         \* crop: [x, y, width, height, normalized], numbers in quarters
    cropOut,         \* crop: [status, x, y, width, height] ("" = not run)
    mats,            \* concat: the input images, each [cols, rows, format]
    dir,             \* concat: the direction name
    strat,           \* concat: the strategy name
    concatOut,       \* concat: [status, outputChannel, result] ("" = not run)
    mat1,            \* blend: the first image [format, cols, rows, colour]
    mat2,            \* blend: the second image
    opacity,         \* blend: the opacity passed by the caller, in quarters
    blendOut,        \* blend: [status, outputChannel, cols, rows, colour]
    callWorker,      \* call: "mosaic" or "advanced"
    callItems,       \* call: what each position or directive does: "copy", "skip", "throw"
    callBg,          \* call: what ParseColor does with backgroundColor_: "ok" or "throw"
    callFormat,      \* call: outputFormat_
    callPc,          \* call: "queued", "placing", "returned", "completed", "terminated"
    callTodo,        \* call: the iterations of the placement loop not yet run
    callError,       \* call: whether AsyncWorker::SetError was called
    callbacks,       \* call: the invocations of the callback, each [error, image, canvas]
    heap,            \* borrow: the pixel buffers; the first ones are the inputs
    passed,          \* borrow: the input images as the caller passed them
    borrowOp,        \* borrow: the call: [kind, directives, same, strategy, direction]
    borrowDone,      \* borrow: how many directives, or whether the call, has run
    transformed      \* borrow: the image each directive handed to the placement

negVars  == <<channels, negotiated>>
convVars == <<convSrc, convTarget, convOut>>
compVars == <<op, pc, images, imageChannels, positions, imageConfigs, normalized,
              canvasChannel, canvas, nextIdx, taken, workers>>
xfVars == <<rsOp, rsSrc, rsReq, rsOut, rotOp, rotSrc, rotImg, rotLog, rotLast>>
colourVars == <<backgroundColor, colourFormat, colourOp, colourOut>>
cropVars == <<cropInput, cropReq, cropOut>>
concatVars == <<mats, dir, strat, concatOut>>
blendVars == <<mat1, mat2, opacity, blendOut>>
callVars == <<callWorker, callItems, callBg, callFormat, callPc, callTodo, callError,
              callbacks>>
borrowVars == <<heap, passed, borrowOp, borrowDone, transformed>>
opsVars == <<colourVars, cropVars, concatVars, blendVars, callVars, borrowVars>>
vars == <<negVars, convVars, compVars, xfVars, opsVars>>

(***************************************************************************)
(* Channel formats                                                         *)
(***************************************************************************)
Formats == {"GRAY", "BGR", "RGB", "BGRA", "RGBA"}

\* a colorSpace string the engine has no branch for
UnknownFormat == "HSV"

\* The channel planes an image of a format holds, in memory order.
Layout(f) ==
    CASE f = "GRAY" -> <<"Y">>
      [] f = "BGR"  -> <<"B", "G", "R">>
      [] f = "RGB"  -> <<"R", "G", "B">>
      [] f = "BGRA" -> <<"B", "G", "R", "A">>
      [] f = "RGBA" -> <<"R", "G", "B", "A">>
      [] OTHER      -> <<"C1", "C2", "C3">>

\* A buffer is a valid image of format f: the channel count of f, and in each
\* colour plane either that colour or a replicated luma.
Conforms(lay, f) ==
    /\ f \in Formats
    /\ Len(lay) = Len(Layout(f))
    /\ \A i \in 1..Len(lay) :
          \/ lay[i] = Layout(f)[i]
          \/ lay[i] = "Y" /\ Layout(f)[i] \in {"B", "G", "R"}

(***************************************************************************)
(* Format negotiators                                                      *)
(***************************************************************************)
Has(chs, f) == \E i \in 1..Len(chs) : chs[i] = f

DetermineBestCanvasFormatSwapped(chs) ==
    IF chs = <<>> THEN "BGR"
    ELSE IF Has(chs, "BGRA") THEN "BGRA"
    ELSE IF Has(chs, "RGBA") THEN "RGBA"
    ELSE IF Has(chs, "RGB") THEN "RGB"
    ELSE IF Has(chs, "BGR") THEN "BGR"
    ELSE "GRAY"

\* mosaic.cpp
DetermineBestCanvasFormat(chs) ==
    IF chs = <<>> THEN "BGR"
    ELSE IF Has(chs, "RGBA") THEN "RGBA"
    ELSE IF Has(chs, "BGRA") THEN "BGRA"
    ELSE IF Has(chs, "RGB") THEN "RGB"
    ELSE IF Has(chs, "BGR") THEN "BGR"
    ELSE "GRAY"

\* advanced-mosaic.cpp
DetermineBestCanvasFormatAdvanced(chs) ==
    IF chs = <<>> THEN "BGR"
    ELSE IF Has(chs, "RGBA") THEN "RGBA"
    ELSE IF Has(chs, "BGRA") THEN "BGRA"
    ELSE IF Has(chs, "RGB") THEN "RGB"
    ELSE IF Has(chs, "BGR") THEN "BGR"
    ELSE "GRAY"

\* concat.cpp: the list negotiator, which has no test for the empty list
DetermineOutputFormatConcat(chs) ==
    IF Has(chs, "RGBA") THEN "RGBA"
    ELSE IF Has(chs, "BGRA") THEN "BGRA"
    ELSE IF Has(chs, "RGB") THEN "RGB"
    ELSE IF Has(chs, "BGR") THEN "BGR"
    ELSE "GRAY"

\* blend.cpp: the two-argument negotiator
DetermineOutputFormatBlend(format1, format2) ==
    IF format1 = "RGBA" \/ format2 = "RGBA" THEN "RGBA"
    ELSE IF format1 = "BGRA" \/ format2 = "BGRA" THEN "BGRA"
    ELSE IF format1 = "RGB" \/ format2 = "RGB" THEN "RGB"
    ELSE IF format1 = "BGR" \/ format2 = "BGR" THEN "BGR"
    ELSE "GRAY"

(***************************************************************************)
(* cv::cvtColor on a layout.  The colour-to-colour and colour-to-gray      *)
(* codes take 3 or 4 source channels, the gray-to-colour codes take 1;     *)
(* any other channel count raises cv::Exception.                           *)
(***************************************************************************)
Failed == [ok |-> FALSE, lay |-> <<>>]
Ok(lay) == [ok |-> TRUE, lay |-> lay]

\* destination channel count of a colour-to-colour code
Dcn(code) == IF code \in {"BGR2BGRA", "RGB2RGBA", "BGR2RGBA", "RGB2BGRA",
                          "BGRA2RGBA", "RGBA2BGRA"} THEN 4 ELSE 3

\* whether a colour-to-colour code exchanges planes 0 and 2
SwapsBlue(code) == code \in {"BGR2RGBA", "RGB2BGRA", "RGBA2BGR", "BGRA2RGB",
                             "BGR2RGB", "RGB2BGR", "BGRA2RGBA", "RGBA2BGRA"}

\* the luma of three planes read with blue at index bidx (1 or 3)
Luma(s, bidx) ==
    IF s[1] = "Y" /\ s[2] = "Y" /\ s[3] = "Y" THEN "Y"
    ELSE IF s[bidx] = "B" /\ s[2] = "G" /\ s[4 - bidx] = "R" THEN "Y"
    ELSE "Yx"

CvtColor(s, code) ==
    IF code \in {"GRAY2BGR", "GRAY2RGB", "GRAY2BGRA", "GRAY2RGBA"} THEN
        IF Len(s) # 1 THEN Failed
        ELSE IF code \in {"GRAY2BGR", "GRAY2RGB"} THEN Ok(<<s[1], s[1], s[1]>>)
        ELSE Ok(<<s[1], s[1], s[1], "A">>)
    ELSE IF code \in {"BGR2GRAY", "BGRA2GRAY"} THEN
        IF Len(s) \notin {3, 4} THEN Failed ELSE Ok(<<Luma(s, 1)>>)
    ELSE IF code \in {"RGB2GRAY", "RGBA2GRAY"} THEN
        IF Len(s) \notin {3, 4} THEN Failed ELSE Ok(<<Luma(s, 3)>>)
    ELSE
        IF Len(s) \notin {3, 4} THEN Failed
        ELSE LET c == IF SwapsBlue(code) THEN <<s[3], s[2], s[1]>>
                      ELSE <<s[1], s[2], s[3]>>
             IN  IF Dcn(code) = 3 THEN Ok(c)
                 ELSE Ok(Append(c, IF Len(s) = 4 THEN s[4] ELSE "A"))

(***************************************************************************)
(* Converters                                                              *)
(***************************************************************************)
\* concat.cpp ConvertToTargetFormat: 14 pairs, then the fallback dst = src
ConvertToTargetFormat(src, srcFormat, targetFormat) ==
    IF srcFormat = targetFormat THEN Ok(src)
    ELSE IF srcFormat = "GRAY" /\ targetFormat = "BGR"  THEN CvtColor(src, "GRAY2BGR")
    ELSE IF srcFormat = "GRAY" /\ targetFormat = "RGB"  THEN CvtColor(src, "GRAY2RGB")
    ELSE IF srcFormat = "GRAY" /\ targetFormat = "BGRA" THEN CvtColor(src, "GRAY2BGRA")
    ELSE IF srcFormat = "GRAY" /\ targetFormat = "RGBA" THEN CvtColor(src, "GRAY2RGBA")
    ELSE IF srcFormat = "BGR"  /\ targetFormat = "RGB"  THEN CvtColor(src, "BGR2RGB")
    ELSE IF srcFormat = "RGB"  /\ targetFormat = "BGR"  THEN CvtColor(src, "RGB2BGR")
    ELSE IF srcFormat = "BGR"  /\ targetFormat = "BGRA" THEN CvtColor(src, "BGR2BGRA")
    ELSE IF srcFormat = "BGR"  /\ targetFormat = "RGBA" THEN CvtColor(src, "BGR2RGBA")
    ELSE IF srcFormat = "RGB"  /\ targetFormat = "RGBA" THEN CvtColor(src, "RGB2RGBA")
    ELSE IF srcFormat = "RGB"  /\ targetFormat = "BGRA" THEN CvtColor(src, "RGB2BGRA")
    ELSE IF srcFormat = "BGRA" /\ targetFormat = "BGR"  THEN CvtColor(src, "BGRA2BGR")
    ELSE IF srcFormat = "RGBA" /\ targetFormat = "RGB"  THEN CvtColor(src, "RGBA2RGB")
    ELSE IF srcFormat = "BGRA" /\ targetFormat = "RGBA" THEN CvtColor(src, "BGRA2RGBA")
    ELSE IF srcFormat = "RGBA" /\ targetFormat = "BGRA" THEN CvtColor(src, "RGBA2BGRA")
    ELSE Ok(src)

\* the conversion chain without its source-format tests: every source taken
\* for BGR
ConvertForCanvasAssumeBGR(srcRegion, imgChannel, canvasFmt) ==
    IF canvasFmt = "GRAY" THEN CvtColor(srcRegion, "BGR2GRAY")
    ELSE IF canvasFmt = "RGB" THEN CvtColor(srcRegion, "BGR2RGB")
    ELSE IF canvasFmt = "BGRA" THEN CvtColor(srcRegion, "BGR2BGRA")
    ELSE IF canvasFmt = "RGBA" THEN CvtColor(srcRegion, "BGR2RGBA")
    ELSE Ok(srcRegion)

\* The conversion chain of PlaceImageFast / PlaceImageOnCanvas (the two are
\* the same text): by canvas format, then by image format, the last branch
\* of each taking every name that is not GRAY, RGB, RGBA or BGRA (or, for a
\* BGR canvas, copying the region as it is).
ConvertForCanvas(srcRegion, imgChannel, canvasFmt) ==
    IF canvasFmt = "GRAY" THEN
        IF imgChannel = "GRAY" THEN Ok(srcRegion)
        ELSE IF imgChannel = "RGB"  THEN CvtColor(srcRegion, "RGB2GRAY")
        ELSE IF imgChannel = "RGBA" THEN CvtColor(srcRegion, "RGBA2GRAY")
        ELSE IF imgChannel = "BGRA" THEN CvtColor(srcRegion, "BGRA2GRAY")
        ELSE CvtColor(srcRegion, "BGR2GRAY")
    ELSE IF canvasFmt = "BGR" THEN
        IF imgChannel = "GRAY" THEN CvtColor(srcRegion, "GRAY2BGR")
        ELSE IF imgChannel = "RGB"  THEN CvtColor(srcRegion, "RGB2BGR")
        ELSE IF imgChannel = "RGBA" THEN CvtColor(srcRegion, "RGBA2BGR")
        ELSE IF imgChannel = "BGRA" THEN CvtColor(srcRegion, "BGRA2BGR")
        ELSE Ok(srcRegion)
    ELSE IF canvasFmt = "RGB" THEN
        IF imgChannel = "GRAY" THEN CvtColor(srcRegion, "GRAY2RGB")
        ELSE IF imgChannel = "RGB"  THEN Ok(srcRegion)
        ELSE IF imgChannel = "RGBA" THEN CvtColor(srcRegion, "RGBA2RGB")
        ELSE IF imgChannel = "BGRA" THEN CvtColor(srcRegion, "BGRA2RGB")
        ELSE CvtColor(srcRegion, "BGR2RGB")
    ELSE IF canvasFmt = "BGRA" THEN
        IF imgChannel = "GRAY" THEN CvtColor(srcRegion, "GRAY2BGRA")
        ELSE IF imgChannel = "RGB"  THEN CvtColor(srcRegion, "RGB2BGRA")
        ELSE IF imgChannel = "RGBA" THEN CvtColor(srcRegion, "RGBA2BGRA")
        ELSE IF imgChannel = "BGRA" THEN Ok(srcRegion)
        ELSE CvtColor(srcRegion, "BGR2BGRA")
    ELSE IF canvasFmt = "RGBA" THEN
        IF imgChannel = "GRAY" THEN CvtColor(srcRegion, "GRAY2RGBA")
        ELSE IF imgChannel = "RGB"  THEN CvtColor(srcRegion, "RGB2RGBA")
        ELSE IF imgChannel = "RGBA" THEN Ok(srcRegion)
        ELSE IF imgChannel = "BGRA" THEN CvtColor(srcRegion, "BGRA2RGBA")
        ELSE CvtColor(srcRegion, "BGR2RGBA")
    ELSE
        IF imgChannel = "GRAY" THEN CvtColor(srcRegion, "GRAY2BGR")
        ELSE IF imgChannel = "RGB"  THEN CvtColor(srcRegion, "RGB2BGR")
        ELSE IF imgChannel = "RGBA" THEN CvtColor(srcRegion, "RGBA2BGR")
        ELSE IF imgChannel = "BGRA" THEN CvtColor(srcRegion, "BGRA2BGR")
        ELSE Ok(srcRegion)

\* utils.h ToBgrForJpg
ToBgrForJpg(src, order) ==
    IF Len(src) = 1 \/ order = "BGR" THEN Ok(src)
    ELSE IF order = "RGB"  THEN CvtColor(src, "RGB2BGR")
    ELSE IF order = "BGRA" THEN CvtColor(src, "BGRA2BGR")
    ELSE IF order = "RGBA" THEN CvtColor(src, "RGBA2BGR")
    ELSE Ok(src)

(***************************************************************************)
(* Idle values of the three variable groups                                *)
(***************************************************************************)
NotNegotiated == [mosaic |-> "", advanced |-> "", concat |-> "", blend |-> ""]
NotConverted  == [by |-> "", ok |-> FALSE, lay |-> <<>>]

NegIdle  == channels = <<>> /\ negotiated = NotNegotiated
ConvIdle == convSrc = [format |-> "", lay |-> <<>>] /\ convTarget = "" /\ convOut = NotConverted
CompIdle ==
    /\ op = "" /\ pc = ""
    /\ images = <<>> /\ imageChannels = <<>>
    /\ positions = <<>> /\ imageConfigs = <<>>
    /\ normalized = FALSE
    /\ canvasChannel = "" /\ canvas = <<>>
    /\ nextIdx = 0 /\ taken = {} /\ workers = <<>>

NoResize == [status |-> "", targetWidth |-> 0, targetHeight |-> 0]
NoImage == [cols |-> 0, rows |-> 0, px |-> <<>>]
NoRotation == [path |-> "", angle |-> 0, turn |-> 0, inW |-> 0, inH |-> 0]

ResizeIdle ==
    /\ rsOp = "" /\ rsSrc = [cols |-> 0, rows |-> 0]
    /\ rsReq = <<>> /\ rsOut = NoResize
RotateIdle ==
    /\ rotOp = "" /\ rotSrc = NoImage /\ rotImg = NoImage
    /\ rotLog = <<>> /\ rotLast = NoRotation
XfIdle == ResizeIdle /\ RotateIdle

NoColour == [status |-> "", px |-> <<>>]
ColourIdle ==
    /\ backgroundColor = <<>> /\ colourFormat = ""
    /\ colourOp = "" /\ colourOut = NoColour
NoCrop == [status |-> "", x |-> 0, y |-> 0, width |-> 0, height |-> 0]
CropIdle ==
    /\ cropInput = [cols |-> 0, rows |-> 0]
    /\ cropReq = <<>> /\ cropOut = NoCrop
NoConcat == [status |-> "", outputChannel |-> "", result |-> NoImage]
ConcatIdle == mats = <<>> /\ dir = "" /\ strat = "" /\ concatOut = NoConcat
NoMat == [format |-> "", cols |-> 0, rows |-> 0, colour |-> <<>>]
NoBlend == [status |-> "", outputChannel |-> "", cols |-> 0, rows |-> 0, colour |-> <<>>]
BlendIdle == mat1 = NoMat /\ mat2 = NoMat /\ opacity = 0 /\ blendOut = NoBlend
CallIdle ==
    /\ callWorker = "" /\ callItems = <<>> /\ callBg = "" /\ callFormat = ""
    /\ callPc = "" /\ callTodo = {} /\ callError = FALSE /\ callbacks = <<>>
NoBorrow == [kind |-> "", directives |-> <<>>, same |-> <<>>, strategy |-> "",
             direction |-> ""]
BorrowIdle ==
    /\ heap = <<>> /\ passed = <<>> /\ borrowOp = NoBorrow /\ borrowDone = 0
    /\ transformed = <<>>
OpsIdle == ColourIdle /\ CropIdle /\ ConcatIdle /\ BlendIdle /\ CallIdle /\ BorrowIdle

\* all sequences over S of length at most n
SeqsUpTo(S, n) == UNION {[1..k -> S] : k \in 0..n}

(***************************************************************************)
(* SpecNeg: the negotiators applied to every list of formats               *)
(***************************************************************************)
MaxChannels == 3

InitNeg ==
    /\ channels \in SeqsUpTo(Formats, MaxChannels)
    /\ negotiated = NotNegotiated
    /\ ConvIdle /\ CompIdle /\ XfIdle /\ OpsIdle

NegotiateMosaic ==
    /\ negotiated.mosaic = ""
    /\ negotiated' = [negotiated EXCEPT !.mosaic = DetermineBestCanvasFormat(channels)]
    /\ UNCHANGED <<channels, convVars, compVars, xfVars, opsVars>>

NegotiateAdvanced ==
    /\ negotiated.advanced = ""
    /\ negotiated' = [negotiated EXCEPT !.advanced = DetermineBestCanvasFormatAdvanced(channels)]
    /\ UNCHANGED <<channels, convVars, compVars, xfVars, opsVars>>

NegotiateConcat ==
    /\ negotiated.concat = ""
    /\ negotiated' = [negotiated EXCEPT !.concat = DetermineOutputFormatConcat(channels)]
    /\ UNCHANGED <<channels, convVars, compVars, xfVars, opsVars>>

\* blend always has exactly two inputs
NegotiateBlend ==
    /\ Len(channels) = 2
    /\ negotiated.blend = ""
    /\ negotiated' = [negotiated EXCEPT
                         !.blend = DetermineOutputFormatBlend(channels[1], channels[2])]
    /\ UNCHANGED <<channels, convVars, compVars, xfVars, opsVars>>

NextNeg == NegotiateMosaic \/ NegotiateAdvanced \/ NegotiateConcat \/ NegotiateBlend

SpecNeg == InitNeg /\ [][NextNeg]_vars

(***************************************************************************)
(* SpecConv: the converters applied to every (source, target) pair: a      *)
(* source of one of the five formats or of an unrecognised name, and a     *)
(* target among the five formats (a target is always a negotiated format)  *)
(***************************************************************************)
ConvSources ==
    {[format |-> f, lay |-> Layout(f)] : f \in Formats}
    \cup {[format |-> UnknownFormat, lay |-> l] :
             l \in {<<"C1">>, <<"C1", "C2", "C3">>, <<"C1", "C2", "C3", "C4">>}}

InitConv ==
    /\ convSrc \in ConvSources
    /\ convTarget \in Formats
    /\ convOut = NotConverted
    /\ NegIdle /\ CompIdle /\ XfIdle /\ OpsIdle

Converted(by, r) == [by |-> by, ok |-> r.ok, lay |-> r.lay]

RunConvertToTargetFormat ==
    /\ convOut.by = ""
    /\ convOut' = Converted("concat",
                      ConvertToTargetFormat(convSrc.lay, convSrc.format, convTarget))
    /\ UNCHANGED <<convSrc, convTarget, negVars, compVars, xfVars, opsVars>>

RunConvertForCanvas ==
    /\ convOut.by = ""
    /\ convOut' = Converted("canvas",
                      ConvertForCanvas(convSrc.lay, convSrc.format, convTarget))
    /\ UNCHANGED <<convSrc, convTarget, negVars, compVars, xfVars, opsVars>>

\* ToBgrForJpg has the one target BGR
RunToBgrForJpg ==
    /\ convOut.by = ""
    /\ convTarget = "BGR"
    /\ convOut' = Converted("encode", ToBgrForJpg(convSrc.lay, convSrc.format))
    /\ UNCHANGED <<convSrc, convTarget, negVars, compVars, xfVars, opsVars>>

NextConv == RunConvertToTargetFormat \/ RunConvertForCanvas \/ RunToBgrForJpg

SpecConv == InitConv /\ [][NextConv]_vars

(***************************************************************************)
(* Compositing: geometry                                                   *)
(***************************************************************************)
\* canvasWidth_ and canvasHeight_ of the call (positive: the bindings reject
\* anything else)
CanvasW == 2
CanvasH == 1

Coords == (0..(CanvasW - 1)) \X (0..(CanvasH - 1))

Max(a, b) == IF a >= b THEN a ELSE b
Min(a, b) == IF a <= b THEN a ELSE b
Abs(a) == IF a >= 0 THEN a ELSE -a

\* std::round and std::lround of the rational n/d (d > 0): to nearest, halves
\* away from zero
RoundDiv(n, d) ==
    IF n >= 0 THEN (2 * n + d) \div (2 * d) ELSE -((2 * (-n) + d) \div (2 * d))

\* the position truncated toward zero instead of rounded
PlaceCoordTruncating(v, extent, norm) ==
    IF norm THEN IF v >= 0 THEN (v * extent) \div 2 ELSE -(((-v) * extent) \div 2)
    ELSE IF v >= 0 THEN v \div 2 ELSE -((-v) \div 2)

\* The x or y of a position is a double; the model holds it as a number of
\* halves, v standing for v/2.
PlaceCoord(v, extent, norm) ==
    IF norm THEN RoundDiv(v * extent, 2) ELSE RoundDiv(v, 2)

NoRect == [skip |-> TRUE, srcX |-> 0, srcY |-> 0, dstX |-> 0, dstY |-> 0,
           width |-> 0, height |-> 0]

\* placement that wraps a position beyond the right or bottom edge around
PlacementWrapped(x, y, cols, rows) ==
    LET wx == IF x >= CanvasW THEN x % CanvasW ELSE x
        wy == IF y >= CanvasH THEN y % CanvasH ELSE y
    IN  IF wx + cols <= 0 \/ wy + rows <= 0 THEN NoRect
        ELSE LET srcX == Max(0, -wx)
                 srcY == Max(0, -wy)
                 dstX == Max(0, wx)
                 dstY == Max(0, wy)
                 width  == Min(cols - srcX, CanvasW - dstX)
                 height == Min(rows - srcY, CanvasH - dstY)
             IN  IF width <= 0 \/ height <= 0 THEN NoRect
                 ELSE [skip |-> FALSE, srcX |-> srcX, srcY |-> srcY,
                       dstX |-> dstX, dstY |-> dstY, width |-> width, height |-> height]

\* placement that copies from the image's top-left corner whatever was
\* clipped
PlacementNoSourceOffset(x, y, cols, rows) ==
    IF x >= CanvasW \/ y >= CanvasH THEN NoRect
    ELSE IF x + cols <= 0 \/ y + rows <= 0 THEN NoRect
    ELSE LET dstX == Max(0, x)
             dstY == Max(0, y)
             width  == Min(cols - Max(0, -x), CanvasW - dstX)
             height == Min(rows - Max(0, -y), CanvasH - dstY)
         IN  IF width <= 0 \/ height <= 0 THEN NoRect
             ELSE [skip |-> FALSE, srcX |-> 0, srcY |-> 0,
                   dstX |-> dstX, dstY |-> dstY, width |-> width, height |-> height]

\* bounds test and intersection rectangle of an image of cols x rows at (x, y)
Placement(x, y, cols, rows) ==
    IF x >= CanvasW \/ y >= CanvasH THEN NoRect
    ELSE IF x + cols <= 0 \/ y + rows <= 0 THEN NoRect
    ELSE LET srcX == Max(0, -x)
             srcY == Max(0, -y)
             dstX == Max(0, x)
             dstY == Max(0, y)
             width  == Min(cols - srcX, CanvasW - dstX)
             height == Min(rows - srcY, CanvasH - dstY)
         IN  IF width <= 0 \/ height <= 0 THEN NoRect
             ELSE [skip |-> FALSE, srcX |-> srcX, srcY |-> srcY,
                   dstX |-> dstX, dstY |-> dstY, width |-> width, height |-> height]

InRect(r, p) ==
    /\ ~r.skip
    /\ r.dstX <= p[1] /\ p[1] < r.dstX + r.width
    /\ r.dstY <= p[2] /\ p[2] < r.dstY + r.height

\* the canvas pixel p after the copy of a region: the pixel of directive id
\* at the matching source coordinates, in the layout lay
Copied(id, r, lay, p) ==
    [from |-> id, sx |-> r.srcX + (p[1] - r.dstX), sy |-> r.srcY + (p[2] - r.dstY),
     lay |-> lay]

\* imgToPlace.copyTo(canvas_(dstROI))
CopyTo(cv, id, r, lay) ==
    [p \in DOMAIN cv |-> IF InRect(r, p) THEN Copied(id, r, lay, p) ELSE cv[p]]

\* the k-th pixel (from 0) that copyTo writes: row by row
NthPixel(r, k) == <<r.dstX + (k % r.width), r.dstY + (k \div r.width)>>

(***************************************************************************)
(* Compositing: background and canvas allocation (Execute, first part)     *)
(***************************************************************************)
\* a background of three channels whatever the canvas format
BackgroundLayoutBGR(fmt) == <<"B", "G", "R">>

\* ParseColor gives (B, G, R); the canvas format then reorders it, adds an
\* alpha, or averages it ("Yavg")
BackgroundLayout(fmt) ==
    LET parsed  == <<"B", "G", "R">>
        swapped == IF fmt \in {"RGB", "RGBA"} THEN <<parsed[3], parsed[2], parsed[1]>>
                   ELSE parsed
    IN  IF fmt \in {"BGRA", "RGBA"} THEN Append(swapped, "A")
        ELSE IF fmt = "GRAY" THEN <<"Yavg">>
        ELSE swapped

NewCanvas(fmt) ==
    [p \in Coords |-> [from |-> 0, sx |-> 0, sy |-> 0, lay |-> BackgroundLayout(fmt)]]

(***************************************************************************)
(* Compositing: the transform pipeline of ProcessImageFast                 *)
(* Angles are held in units of 1e-4 degree.                                *)
(***************************************************************************)
Eps      == 10          \* 1e-3 degree
FullTurn == 3600000     \* 360 degrees
Quarter  == 900000      \* 90 degrees

Deg(d) == d * 10000

\* std::fmod: the remainder has the sign of the dividend
Fmod(a, m) == IF a >= 0 THEN a % m ELSE -((-a) % m)

\* which branch of the rotation step an angle takes
RotationPath(rotation) ==
    IF ~(Abs(rotation) > Eps) THEN "none"
    ELSE LET normalizedAngle == Fmod(rotation + FullTurn, FullTurn)
         IN  IF Abs(normalizedAngle) < Eps \/ Abs(normalizedAngle - FullTurn) < Eps
                 THEN "rot0"
             ELSE IF Abs(normalizedAngle - Quarter) < Eps THEN "ccw90"
             ELSE IF Abs(normalizedAngle - 2 * Quarter) < Eps THEN "rot180"
             ELSE IF Abs(normalizedAngle - 3 * Quarter) < Eps THEN "cw90"
             ELSE "affine"

\* <<|cos|, |sin|>> of an angle, in units of 1e-8, for the angles the model
\* sends down the affine path
AbsCosSin(rotation) ==
    LET a == Abs(rotation) % (2 * Quarter)
    IN  CASE a = Deg(45) \/ a = Deg(135) -> <<70710678, 70710678>>
          [] a = Deg(30) \/ a = Deg(150) -> <<86602540, 50000000>>
          [] a = Deg(60) \/ a = Deg(120) -> <<50000000, 86602540>>
          [] a = Deg(90)                 -> <<0, 100000000>>
          [] a = 5 \/ a = 2 * Quarter - 5 -> <<99999999, 872>>
          [] OTHER                       -> <<100000000, 0>>

\* the resize step with the derived dimension truncated instead of rounded
TargetSizeTruncating(config, cols, rows) ==
    IF config.width > 0 \/ config.height > 0 THEN
        IF config.width > 0 /\ config.height <= 0
            THEN <<config.width, (config.width * rows) \div cols>>
        ELSE IF config.height > 0 /\ config.width <= 0
            THEN <<(config.height * cols) \div rows, config.height>>
        ELSE <<config.width, config.height>>
    ELSE <<cols, rows>>

\* the size the resize step asks cv::resize for
TargetSize(config, cols, rows) ==
    IF config.width > 0 \/ config.height > 0 THEN
        LET targetWidth  == IF config.width > 0 THEN config.width ELSE cols
            targetHeight == IF config.height > 0 THEN config.height ELSE rows
        IN  IF config.width > 0 /\ config.height <= 0
                THEN <<targetWidth, RoundDiv(targetWidth * rows, cols)>>
            ELSE IF config.height > 0 /\ config.width <= 0
                THEN <<RoundDiv(targetHeight * cols, rows), targetHeight>>
            ELSE <<targetWidth, targetHeight>>
    ELSE <<cols, rows>>

\* the size after the rotation step
RotatedSize(rotation, w, h) ==
    LET path == RotationPath(rotation)
    IN  IF path \in {"ccw90", "cw90"} THEN <<h, w>>
        ELSE IF path = "affine" THEN
            LET cosA == AbsCosSin(rotation)[1]
                sinA == AbsCosSin(rotation)[2]
            IN  <<(h * sinA + w * cosA) \div 100000000,
                  (h * cosA + w * sinA) \div 100000000>>
        ELSE <<w, h>>

IsEmpty(img) == img.cols = 0 \/ img.rows = 0

NoPlan == [status |-> "skip", rect |-> NoRect, lay |-> <<>>, cols |-> 0, rows |-> 0]

\* the placement step shared by PlaceImageFast and PlaceImageOnCanvas: the
\* rectangle, then the conversion of the source region to the canvas format
PlaceOnCanvas(cols, rows, x, y, imgChannel) ==
    IF cols = 0 \/ rows = 0 THEN NoPlan
    ELSE LET r == Placement(PlaceCoord(x, CanvasW, normalized),
                            PlaceCoord(y, CanvasH, normalized), cols, rows)
         IN  IF r.skip THEN NoPlan
             ELSE LET c == ConvertForCanvas(Layout(imgChannel), imgChannel, canvasChannel)
                  IN  IF ~c.ok THEN [NoPlan EXCEPT !.status = "error"]
                      ELSE [status |-> "copy", rect |-> r, lay |-> c.lay,
                            cols |-> cols, rows |-> rows]

InvalidIndex(arrayIndex) == arrayIndex < 0 \/ arrayIndex >= Len(images)

\* MosaicWorker::PlaceImageFast up to the copy
PlaceImageFast(pos) ==
    IF InvalidIndex(pos.arrayIndex) THEN NoPlan
    ELSE LET img == images[pos.arrayIndex + 1]
         IN  IF IsEmpty(img) THEN NoPlan
             ELSE PlaceOnCanvas(img.cols, img.rows, pos.x, pos.y,
                                imageChannels[pos.arrayIndex + 1])

\* AdvancedMosaicWorker::ProcessImageFast up to the copy: resize, rotate,
\* place.  cv::resize raises cv::Exception for an empty target size.
ProcessImageFast(config) ==
    IF InvalidIndex(config.arrayIndex) THEN NoPlan
    ELSE LET img == images[config.arrayIndex + 1]
         IN  IF IsEmpty(img) THEN NoPlan
             ELSE LET t == TargetSize(config, img.cols, img.rows)
                  IN  IF t[1] <= 0 \/ t[2] <= 0
                          THEN [NoPlan EXCEPT !.status = "error"]
                      ELSE LET s == RotatedSize(config.rotation, t[1], t[2])
                           IN  PlaceOnCanvas(s[1], s[2], config.x, config.y,
                                             imageChannels[config.arrayIndex + 1])

(***************************************************************************)
(* Compositing: the two workers                                            *)
(***************************************************************************)
\* mosaic.cpp: more positions than this are placed by an OpenMP parallel for
ParallelThreshold == 4

\* threads of the parallel loop that the model runs
NumThreads == 2
Threads == 1..NumThreads

Idle == [i |-> 0, k |-> 0]

\* the sort with its comparison reversed
StdSortDescending(cfgs) ==
    {q \in {[i \in 1..Len(cfgs) |-> cfgs[f[i]]] : f \in Permutations(1..Len(cfgs))} :
        \A i, j \in 1..Len(q) : i < j => ~(q[i].zIndex < q[j].zIndex)}

\* std::sort with the comparator a.zIndex < b.zIndex: some permutation in
\* which no element precedes one of smaller zIndex; the order of elements of
\* equal zIndex is unspecified
StdSortByZIndex(cfgs) ==
    {q \in {[i \in 1..Len(cfgs) |-> cfgs[f[i]]] : f \in Permutations(1..Len(cfgs))} :
        \A i, j \in 1..Len(q) : i < j => ~(q[j].zIndex < q[i].zIndex)}

\* the parse loop of the constructor: zIndex defaults to the array position
ParseConfigs(cfgs) ==
    [i \in 1..Len(cfgs) |->
        [cfgs[i] EXCEPT !.zIndex = IF cfgs[i].hasZ THEN cfgs[i].zIndex ELSE i - 1]]

NewMosaicWorker ==
    /\ op = "mosaic" /\ pc = "call"
    /\ canvasChannel' = DetermineBestCanvasFormat(imageChannels)
    /\ pc' = "queued"
    /\ UNCHANGED <<op, images, imageChannels, positions, imageConfigs, normalized,
                   canvas, nextIdx, taken, workers, negVars, convVars, xfVars, opsVars>>

NewAdvancedMosaicWorker ==
    /\ op = "advanced" /\ pc = "call"
    /\ imageConfigs' \in StdSortByZIndex(ParseConfigs(imageConfigs))
    /\ canvasChannel' = DetermineBestCanvasFormatAdvanced(imageChannels)
    /\ pc' = "queued"
    /\ UNCHANGED <<op, images, imageChannels, positions, normalized,
                   canvas, nextIdx, taken, workers, negVars, convVars, xfVars, opsVars>>

\* Execute up to the placement loop (the same text in both workers)
ExecuteBegin ==
    /\ pc = "queued"
    /\ canvas' = NewCanvas(canvasChannel)
    /\ nextIdx' = 1
    /\ pc' = "placing"
    /\ UNCHANGED <<op, images, imageChannels, positions, imageConfigs, normalized,
                   canvasChannel, taken, workers, negVars, convVars, xfVars, opsVars>>

\* one iteration of "for (const auto& pos : positions_) PlaceImageFast(pos)"
MosaicPlaceSequential ==
    /\ op = "mosaic" /\ pc = "placing"
    /\ ~(Len(positions) > ParallelThreshold)
    /\ nextIdx <= Len(positions)
    /\ LET plan == PlaceImageFast(positions[nextIdx])
       IN  /\ canvas' = IF plan.status = "copy"
                            THEN CopyTo(canvas, nextIdx, plan.rect, plan.lay)
                            ELSE canvas
           /\ pc' = IF plan.status = "error" THEN "error" ELSE pc
    /\ nextIdx' = nextIdx + 1
    /\ UNCHANGED <<op, images, imageChannels, positions, imageConfigs, normalized,
                   canvasChannel, taken, workers, negVars, convVars, xfVars, opsVars>>

\* a thread of the parallel for takes an iteration and runs PlaceImageFast up
\* to the copy; an iteration that places nothing is over at once
OmpTake(t) ==
    /\ op = "mosaic" /\ pc = "placing"
    /\ Len(positions) > ParallelThreshold
    /\ workers[t] = Idle
    /\ \E i \in (1..Len(positions)) \ taken :
          /\ taken' = taken \cup {i}
          /\ LET plan == PlaceImageFast(positions[i])
             IN  /\ workers' = IF plan.status = "copy"
                                   THEN [workers EXCEPT ![t] = [i |-> i, k |-> 0]]
                                   ELSE workers
                 /\ pc' = IF plan.status = "error" THEN "error" ELSE pc
    /\ UNCHANGED <<op, images, imageChannels, positions, imageConfigs, normalized,
                   canvasChannel, canvas, nextIdx, negVars, convVars, xfVars, opsVars>>

\* a thread inside copyTo writes its next pixel
OmpCopyPixel(t) ==
    /\ op = "mosaic" /\ pc = "placing"
    /\ workers[t].i # 0
    /\ LET plan == PlaceImageFast(positions[workers[t].i])
           p    == NthPixel(plan.rect, workers[t].k)
       IN  /\ canvas' = [canvas EXCEPT ![p] = Copied(workers[t].i, plan.rect, plan.lay, p)]
           /\ workers' = [workers EXCEPT ![t] =
                             IF workers[t].k + 1 = plan.rect.width * plan.rect.height
                                 THEN Idle
                                 ELSE [i |-> workers[t].i, k |-> workers[t].k + 1]]
    /\ UNCHANGED <<op, pc, images, imageChannels, positions, imageConfigs, normalized,
                   canvasChannel, nextIdx, taken, negVars, convVars, xfVars, opsVars>>

\* one iteration of "for (const auto& config : imageConfigs_) ProcessImageFast(config)"
AdvancedProcessImage ==
    /\ op = "advanced" /\ pc = "placing"
    /\ nextIdx <= Len(imageConfigs)
    /\ LET config == imageConfigs[nextIdx]
           plan   == ProcessImageFast(config)
       IN  /\ canvas' = IF plan.status = "copy"
                            THEN CopyTo(canvas, config.id, plan.rect, plan.lay)
                            ELSE canvas
           /\ pc' = IF plan.status = "error" THEN "error" ELSE pc
    /\ nextIdx' = nextIdx + 1
    /\ UNCHANGED <<op, images, imageChannels, positions, imageConfigs, normalized,
                   canvasChannel, taken, workers, negVars, convVars, xfVars, opsVars>>

\* the placement loop is over: Execute returns and OnOK hands the canvas out
ExecuteEnd ==
    /\ pc = "placing"
    /\ \/ /\ op = "mosaic" /\ Len(positions) > ParallelThreshold
          /\ taken = 1..Len(positions)
          /\ \A t \in Threads : workers[t] = Idle
       \/ /\ op = "mosaic" /\ ~(Len(positions) > ParallelThreshold)
          /\ nextIdx > Len(positions)
       \/ /\ op = "advanced"
          /\ nextIdx > Len(imageConfigs)
    /\ pc' = "done"
    /\ UNCHANGED <<op, images, imageChannels, positions, imageConfigs, normalized,
                   canvasChannel, canvas, nextIdx, taken, workers, negVars, convVars, xfVars, opsVars>>

(***************************************************************************)
(* Compositing: the calls the model makes                                  *)
(***************************************************************************)
\* images of 1x1 and 2x1, an empty image and an image of 1x3
TestImages == <<[cols |-> 1, rows |-> 1], [cols |-> 2, rows |-> 1],
                [cols |-> 0, rows |-> 0], [cols |-> 1, rows |-> 3]>>
TestChannels == <<"BGR", "RGBA", "GRAY", "RGB">>

CallStart(o) ==
    /\ op = o /\ pc = "call"
    /\ canvasChannel = "" /\ canvas = <<>>
    /\ nextIdx = 0 /\ taken = {}
    /\ workers = [t \in Threads |-> Idle]
    /\ NegIdle /\ ConvIdle /\ XfIdle /\ OpsIdle

\* positions of a mosaic call: each image at the left edge, image 0 at the
\* second pixel, and the three kinds of reference to no image
MosaicChoices ==
    {[arrayIndex |-> 0, x |-> 0, y |-> 0], [arrayIndex |-> 0, x |-> 2, y |-> 0],
     [arrayIndex |-> 1, x |-> 0, y |-> 0],
     [arrayIndex |-> -1, x |-> 0, y |-> 0], [arrayIndex |-> 2, x |-> 0, y |-> 0],
     [arrayIndex |-> 4, x |-> 0, y |-> 0]}

\* positions of the calls long enough for the parallel loop
ParallelChoices ==
    {[arrayIndex |-> 0, x |-> 0, y |-> 0], [arrayIndex |-> 1, x |-> 0, y |-> 0],
     [arrayIndex |-> -1, x |-> 0, y |-> 0]}

MaxPositions == 5

InitMosaic ==
    /\ CallStart("mosaic")
    /\ images = TestImages /\ imageChannels = TestChannels
    /\ normalized = FALSE
    /\ positions \in SeqsUpTo(MosaicChoices, ParallelThreshold)
                     \cup UNION {[1..n -> ParallelChoices] :
                                    n \in (ParallelThreshold + 1)..MaxPositions}
    /\ imageConfigs = <<>>

NextMosaic ==
    \/ NewMosaicWorker
    \/ ExecuteBegin
    \/ MosaicPlaceSequential
    \/ \E t \in Threads : OmpTake(t)
    \/ \E t \in Threads : OmpCopyPixel(t)
    \/ ExecuteEnd

SpecMosaic == InitMosaic /\ [][NextMosaic]_vars

\* directives of an advanced mosaic call (x in halves, angles in 1e-4 degree)
Directive(a, x, r, w, h, hasZ, z) ==
    [arrayIndex |-> a, x |-> x, y |-> 0, rotation |-> r, width |-> w, height |-> h,
     hasZ |-> hasZ, zIndex |-> z, id |-> 0]

AdvancedChoices ==
    \* untransformed images, with and without an explicit zIndex
    {Directive(0, 0, 0, -1, -1, z[1], z[2]) : z \in {<<FALSE, 0>>, <<TRUE, 0>>, <<TRUE, 1>>}}
    \cup {Directive(1, 0, 0, -1, -1, TRUE, z) : z \in {0, 1}}
    \cup {Directive(0, 2, 0, -1, -1, FALSE, 0)}
    \* references to no image: negative, an empty image, beyond the end
    \cup {Directive(a, 0, 0, -1, -1, FALSE, 0) : a \in {-1, 2, 4}}
    \* rotated by 90 degrees, resized to width 2, rotated by 45 degrees partly
    \* left of the canvas, and resized to a height that leaves no width
    \cup {Directive(1, 0, Deg(90), -1, -1, TRUE, 1),
          Directive(0, 0, 0, 2, -1, TRUE, 0),
          Directive(1, -2, Deg(45), -1, -1, FALSE, 0),
          Directive(3, 0, 0, -1, 1, FALSE, 0)}

\* id: the directive's position in the caller's array (kept to tell the
\* directives apart after the sort)
Numbered(cfgs) == [i \in 1..Len(cfgs) |-> [cfgs[i] EXCEPT !.id = i]]

MaxConfigs == 3

InitAdvanced ==
    /\ CallStart("advanced")
    /\ images = TestImages /\ imageChannels = TestChannels
    /\ normalized \in BOOLEAN
    /\ positions = <<>>
    /\ imageConfigs \in {Numbered(q) : q \in SeqsUpTo(AdvancedChoices, MaxConfigs)}

NextAdvanced ==
    \/ NewAdvancedMosaicWorker
    \/ ExecuteBegin
    \/ AdvancedProcessImage
    \/ ExecuteEnd

SpecAdvanced == InitAdvanced /\ [][NextAdvanced]_vars

\* SpecFormats: both workers on two images of every pair of formats
FormatImages == <<[cols |-> 1, rows |-> 1], [cols |-> 2, rows |-> 1]>>

FormatPositions ==
    {[arrayIndex |-> 0, x |-> 0, y |-> 0], [arrayIndex |-> 1, x |-> 0, y |-> 0]}

FormatDirectives ==
    {Directive(0, 0, 0, -1, -1, FALSE, 0), Directive(1, 0, 0, -1, -1, FALSE, 0),
     Directive(1, -2, Deg(45), -1, -1, FALSE, 0)}

\* a call long enough for the parallel loop: the two images in turn
FormatParallelCall ==
    [i \in 1..(ParallelThreshold + 1) |-> [arrayIndex |-> i % 2, x |-> 0, y |-> 0]]

MaxFormatItems == 2

InitFormats ==
    /\ images = FormatImages
    /\ imageChannels \in [1..2 -> Formats]
    /\ normalized = FALSE
    /\ \/ /\ CallStart("mosaic")
          /\ positions \in SeqsUpTo(FormatPositions, MaxFormatItems)
                           \cup {FormatParallelCall}
          /\ imageConfigs = <<>>
       \/ /\ CallStart("advanced")
          /\ positions = <<>>
          /\ imageConfigs \in {Numbered(q) : q \in SeqsUpTo(FormatDirectives, MaxFormatItems)}

NextFormats ==
    \/ NewMosaicWorker
    \/ NewAdvancedMosaicWorker
    \/ ExecuteBegin
    \/ MosaicPlaceSequential
    \/ \E t \in Threads : OmpTake(t)
    \/ \E t \in Threads : OmpCopyPixel(t)
    \/ AdvancedProcessImage
    \/ ExecuteEnd

SpecFormats == InitFormats /\ [][NextFormats]_vars

(***************************************************************************)
(* SpecResize: the resize step of a directive and the resize operation     *)
(***************************************************************************)
\* largest side of a source image and largest requested side
MaxSide == 3

Sizes == [cols : 1..MaxSide, rows : 1..MaxSide]

\* width and height of a directive: -1 when the caller gives none
DirectiveSizes == [width : -1..MaxSide, height : -1..MaxSide]

\* a double argument of resize(): NaN, or a number of halves (v for v/2)
NaN == [nan |-> TRUE, v |-> 0]
Number(v) == [nan |-> FALSE, v |-> v]
ResizeValues == {NaN} \cup {Number(v) : v \in -2..(2 * MaxSide)}
ResizeRequests ==
    [widthMode : {"multiply", "pixels"}, widthValue : ResizeValues,
     heightMode : {"multiply", "pixels"}, heightValue : ResizeValues]

\* cv::resize into cv::Size(w, h): cv::Exception for an empty size
CvResize(w, h) == IF w > 0 /\ h > 0 THEN "resized" ELSE "error"

\* the lambda calcDim of ResizeWorker::Execute
CalcDim(orig, mode, val) ==
    IF val.nan THEN 0
    ELSE IF mode = "multiply" THEN RoundDiv(orig * val.v, 2)
    ELSE RoundDiv(val.v, 2)

\* ResizeWorker::Execute: the target size and the outcome
ResizeExecute(src, req) ==
    LET w0 == CalcDim(src.cols, req.widthMode, req.widthValue)
        h0 == CalcDim(src.rows, req.heightMode, req.heightValue)
    IN  IF w0 = 0 /\ h0 = 0
            THEN [status |-> "error", targetWidth |-> 0, targetHeight |-> 0]
        ELSE LET targetWidth  == IF w0 = 0 THEN RoundDiv(h0 * src.cols, src.rows) ELSE w0
                 targetHeight == IF h0 = 0 THEN RoundDiv(targetWidth * src.rows, src.cols)
                                 ELSE h0
             IN  [status |-> CvResize(targetWidth, targetHeight),
                  targetWidth |-> targetWidth, targetHeight |-> targetHeight]

\* step 1 of ProcessImageFast: the image keeps its size when neither width
\* nor height is positive
ResizeStep(src, config) ==
    LET t == TargetSize(config, src.cols, src.rows)
    IN  [status |-> IF config.width > 0 \/ config.height > 0
                        THEN CvResize(t[1], t[2]) ELSE "kept",
         targetWidth |-> t[1], targetHeight |-> t[2]]

InitResize ==
    /\ rsSrc \in Sizes
    /\ \/ rsOp = "advanced" /\ rsReq \in DirectiveSizes
       \/ rsOp = "resize" /\ rsReq \in ResizeRequests
    /\ rsOut = NoResize
    /\ RotateIdle /\ NegIdle /\ ConvIdle /\ CompIdle /\ OpsIdle

RunResizeStep ==
    /\ rsOp = "advanced" /\ rsOut.status = ""
    /\ rsOut' = ResizeStep(rsSrc, rsReq)
    /\ UNCHANGED <<rsOp, rsSrc, rsReq, rotOp, rotSrc, rotImg, rotLog, rotLast,
                   negVars, convVars, compVars, opsVars>>

RunResizeExecute ==
    /\ rsOp = "resize" /\ rsOut.status = ""
    /\ rsOut' = ResizeExecute(rsSrc, rsReq)
    /\ UNCHANGED <<rsOp, rsSrc, rsReq, rotOp, rotSrc, rotImg, rotLog, rotLast,
                   negVars, convVars, compVars, opsVars>>

NextResize == RunResizeStep \/ RunResizeExecute

SpecResize == InitResize /\ [][NextResize]_vars

(***************************************************************************)
(* SpecRotate: the rotation step of a directive and the rotate operation,  *)
(* applied to an image and again to the result.  A pixel of an image is    *)
(* the position <<x, y>> it had in the first input, or Interp when it was  *)
(* computed by interpolation or is padding.                                *)
(***************************************************************************)
\* largest side of the first input image, and number of rotations in a row
MaxRotSide == 2
MaxTurns == 4

Interp == <<-1, -1>>

Grid(cols, rows) == (0..(cols - 1)) \X (0..(rows - 1))

SourceImage(cols, rows) ==
    [cols |-> cols, rows |-> rows, px |-> [p \in Grid(cols, rows) |-> p]]

\* cv::rotate with a transpose in place of the counter-clockwise quarter turn
CvRotateTransposing(im, code) ==
    CASE code = "ROTATE_90_CLOCKWISE" ->
            [cols |-> im.rows, rows |-> im.cols,
             px |-> [p \in Grid(im.rows, im.cols) |-> im.px[<<p[2], im.rows - 1 - p[1]>>]]]
      [] code = "ROTATE_90_COUNTERCLOCKWISE" ->
            [cols |-> im.rows, rows |-> im.cols,
             px |-> [p \in Grid(im.rows, im.cols) |-> im.px[<<p[2], p[1]>>]]]
      [] code = "ROTATE_180" ->
            [cols |-> im.cols, rows |-> im.rows,
             px |-> [p \in Grid(im.cols, im.rows) |->
                        im.px[<<im.cols - 1 - p[1], im.rows - 1 - p[2]>>]]]

\* cv::rotate: the pixel at column p[1], row p[2] of the result
CvRotate(im, code) ==
    CASE code = "ROTATE_90_CLOCKWISE" ->
            [cols |-> im.rows, rows |-> im.cols,
             px |-> [p \in Grid(im.rows, im.cols) |-> im.px[<<p[2], im.rows - 1 - p[1]>>]]]
      [] code = "ROTATE_90_COUNTERCLOCKWISE" ->
            [cols |-> im.rows, rows |-> im.cols,
             px |-> [p \in Grid(im.rows, im.cols) |-> im.px[<<im.cols - 1 - p[2], p[1]>>]]]
      [] code = "ROTATE_180" ->
            [cols |-> im.cols, rows |-> im.rows,
             px |-> [p \in Grid(im.cols, im.rows) |->
                        im.px[<<im.cols - 1 - p[1], im.rows - 1 - p[2]>>]]]

\* the counter-clockwise angle, in [0, 360), by which each rotate code turns
\* the picture
QuarterTurn(code) ==
    CASE code = "ROTATE_90_COUNTERCLOCKWISE" -> Quarter
      [] code = "ROTATE_180" -> 2 * Quarter
      [] code = "ROTATE_90_CLOCKWISE" -> 3 * Quarter

\* cv::getRotationMatrix2D(center, angle, 1.0) with cv::warpAffine: the
\* picture turns counter-clockwise by angle
AffineTurn(angle) == angle % FullTurn

\* cv::warpAffine into a new size: every pixel interpolated or padding
WarpAffine(size) ==
    [cols |-> size[1], rows |-> size[2], px |-> [p \in Grid(size[1], size[2]) |-> Interp]]

\* cv::Size(int(h*sinA + w*cosA), int(h*cosA + w*sinA))
BoundingSize(angle, w, h) ==
    LET cosA == AbsCosSin(angle)[1]
        sinA == AbsCosSin(angle)[2]
    IN  <<(h * sinA + w * cosA) \div 100000000, (h * cosA + w * sinA) \div 100000000>>

Rotated(im, path, angle, turn, result) ==
    [img |-> result,
     last |-> [path |-> path, angle |-> angle, turn |-> turn,
               inW |-> im.cols, inH |-> im.rows]]

\* step 2 of ProcessImageFast
RotateStep(im, rotation) ==
    LET path == RotationPath(rotation)
    IN  CASE path \in {"none", "rot0"} -> Rotated(im, path, rotation, 0, im)
          [] path = "ccw90" ->
                Rotated(im, path, rotation, QuarterTurn("ROTATE_90_COUNTERCLOCKWISE"),
                        CvRotate(im, "ROTATE_90_COUNTERCLOCKWISE"))
          [] path = "rot180" ->
                Rotated(im, path, rotation, QuarterTurn("ROTATE_180"),
                        CvRotate(im, "ROTATE_180"))
          [] path = "cw90" ->
                Rotated(im, path, rotation, QuarterTurn("ROTATE_90_CLOCKWISE"),
                        CvRotate(im, "ROTATE_90_CLOCKWISE"))
          [] path = "affine" ->
                Rotated(im, path, rotation, AffineTurn(-rotation),
                        WarpAffine(RotatedSize(rotation, im.cols, im.rows)))

\* RotateWorker::Execute
RotateExecute(im, angleDeg) ==
    LET n == Fmod(angleDeg + FullTurn, FullTurn)
        near(a) == Abs(n - a) < Eps
    IN  IF near(0) \/ near(Quarter) \/ near(2 * Quarter) \/ near(3 * Quarter) THEN
            IF near(0) THEN Rotated(im, "rot0", angleDeg, 0, im)
            ELSE IF near(Quarter) THEN
                Rotated(im, "cw90", angleDeg, QuarterTurn("ROTATE_90_CLOCKWISE"),
                        CvRotate(im, "ROTATE_90_CLOCKWISE"))
            ELSE IF near(2 * Quarter) THEN
                Rotated(im, "rot180", angleDeg, QuarterTurn("ROTATE_180"),
                        CvRotate(im, "ROTATE_180"))
            ELSE Rotated(im, "ccw90", angleDeg, QuarterTurn("ROTATE_90_COUNTERCLOCKWISE"),
                         CvRotate(im, "ROTATE_90_COUNTERCLOCKWISE"))
        ELSE Rotated(im, "affine", angleDeg, AffineTurn(angleDeg),
                     WarpAffine(BoundingSize(angleDeg, im.cols, im.rows)))

\* angles of a first rotation: the quarter turns and their negatives, more
\* than a full turn either way, angles within 1e-3 of a quarter turn, and
\* angles of the general path
RotateAngles ==
    {Deg(d) : d \in {0, 90, 180, 270, 360, -90, -180, -270, -360, 450, -450,
                     30, 45, -45, 60}}
    \cup {5, -5, Deg(90) - 5, Deg(90) + 5, Deg(360) - 5}

\* angles of the rotations applied to a result
ChainAngles == {Deg(d) : d \in {90, 180, 270, -90}}

InitRotate ==
    /\ rotOp \in {"advanced", "rotate"}
    /\ rotSrc \in {SourceImage(c, r) : c \in 1..MaxRotSide, r \in 1..MaxRotSide}
    /\ rotImg = rotSrc
    /\ rotLog = <<>> /\ rotLast = NoRotation
    /\ ResizeIdle /\ NegIdle /\ ConvIdle /\ CompIdle /\ OpsIdle

RunRotateStep ==
    /\ rotOp = "advanced" /\ Len(rotLog) < MaxTurns
    /\ \E angle \in IF rotLog = <<>> THEN RotateAngles ELSE ChainAngles :
          LET r == RotateStep(rotImg, angle)
          IN  /\ rotImg' = r.img
              /\ rotLast' = r.last
              /\ rotLog' = Append(rotLog, angle)
    /\ UNCHANGED <<rotOp, rotSrc, rsOp, rsSrc, rsReq, rsOut, negVars, convVars, compVars, opsVars>>

RunRotateExecute ==
    /\ rotOp = "rotate" /\ Len(rotLog) < MaxTurns
    /\ \E angle \in IF rotLog = <<>> THEN RotateAngles ELSE ChainAngles :
          LET r == RotateExecute(rotImg, angle)
          IN  /\ rotImg' = r.img
              /\ rotLast' = r.last
              /\ rotLog' = Append(rotLog, angle)
    /\ UNCHANGED <<rotOp, rotSrc, rsOp, rsSrc, rsReq, rsOut, negVars, convVars, compVars, opsVars>>

NextRotate == RunRotateStep \/ RunRotateExecute

SpecRotate == InitRotate /\ [][NextRotate]_vars

(***************************************************************************)
(* SpecPlace: one image of every small size placed at every position near  *)
(* the canvas, alone or over an image that fills the canvas, by both       *)
(* workers                                                                 *)
(***************************************************************************)
\* largest side of the placed image
MaxPlaceSide == 3

\* positions, in halves, from left of and above every image to beyond the
\* right and bottom edges
PlaceXs == (-(2 * MaxPlaceSide) - 1)..(2 * CanvasW + 1)
PlaceYs == (-(2 * MaxPlaceSide) - 1)..(2 * CanvasH + 1)

\* image 0 is the placed image, image 1 fills the canvas
PlaceImages(c, r) == <<[cols |-> c, rows |-> r], [cols |-> CanvasW, rows |-> CanvasH]>>
PlaceChannels == <<"RGB", "BGRA">>

InitPlace ==
    /\ \E c \in 1..MaxPlaceSide, r \in 1..MaxPlaceSide : images = PlaceImages(c, r)
    /\ imageChannels = PlaceChannels
    /\ normalized \in BOOLEAN
    /\ \E x \in PlaceXs, y \in PlaceYs, under \in BOOLEAN :
          \/ /\ CallStart("mosaic")
             /\ positions = (IF under THEN <<[arrayIndex |-> 1, x |-> 0, y |-> 0]>> ELSE <<>>)
                                \o <<[arrayIndex |-> 0, x |-> x, y |-> y]>>
             /\ imageConfigs = <<>>
          \/ /\ CallStart("advanced")
             /\ positions = <<>>
             /\ \E rot \in {0, Deg(90)} :
                   imageConfigs =
                       Numbered((IF under THEN <<Directive(1, 0, 0, -1, -1, FALSE, 0)>>
                                 ELSE <<>>)
                                \o <<[Directive(0, x, rot, -1, -1, FALSE, 0) EXCEPT !.y = y]>>)

NextPlace ==
    \/ NewMosaicWorker
    \/ NewAdvancedMosaicWorker
    \/ ExecuteBegin
    \/ MosaicPlaceSequential
    \/ AdvancedProcessImage
    \/ ExecuteEnd

SpecPlace == InitPlace /\ [][NextPlace]_vars

(***************************************************************************)
(* Colours: ParseColor, the canvas background and the rotation border.     *)
(* A colour string is a sequence of one-character strings; a cv::Scalar is *)
(* a sequence of four numbers; a pixel is the sequence of its channel      *)
(* values, each 0..255.                                                    *)
(***************************************************************************)
HexUpper == <<"0", "1", "2", "3", "4", "5", "6", "7", "8", "9",
              "A", "B", "C", "D", "E", "F">>
HexLower == <<"0", "1", "2", "3", "4", "5", "6", "7", "8", "9",
              "a", "b", "c", "d", "e", "f">>

IsXDigit(c) == \E i \in 1..16 : HexUpper[i] = c \/ HexLower[i] = c
XDigit(c) == (CHOOSE i \in 1..16 : HexUpper[i] = c \/ HexLower[i] = c) - 1
IsDigit(c) == \E i \in 1..10 : HexUpper[i] = c

\* the longest run of hexadecimal digits of s from position i on:
\* [next, v] with next = i when there is none
RECURSIVE HexRun(_, _, _)
HexRun(s, i, acc) ==
    IF i > Len(s) \/ ~IsXDigit(s[i])
    THEN [next |-> i, v |-> acc]
    ELSE HexRun(s, i + 1, acc * 16 + XDigit(s[i]))

\* the longest run of decimal digits of s from position i on
RECURSIVE DecRun(_, _, _)
DecRun(s, i, acc) ==
    IF i > Len(s) \/ ~IsDigit(s[i])
    THEN [next |-> i, v |-> acc]
    ELSE DecRun(s, i + 1, acc * 10 + XDigit(s[i]))

At(s, i) == IF i <= Len(s) THEN s[i] ELSE ""

\* std::stoul(s, nullptr, 16) stored in an unsigned: an optional sign, an
\* optional 0x, then the longest run of hexadecimal digits, whatever follows
\* it; std::invalid_argument when the run is empty.  A negated value wraps.
\* v is the low 24 bits of the value, the only ones ParseColor reads.
Stoul(s) ==
    LET signed == At(s, 1) = "-" \/ At(s, 1) = "+"
        i == IF signed THEN 2 ELSE 1
        j == IF At(s, i) = "0" /\ (At(s, i + 1) = "x" \/ At(s, i + 1) = "X")
                /\ IsXDigit(At(s, i + 2))
             THEN i + 2 ELSE i
        run == HexRun(s, j, 0)
    IN  IF run.next = j
        THEN [status |-> "invalid_argument", v |-> 0]
        ELSE [status |-> "ok",
              v |-> IF At(s, 1) = "-" THEN (2^24 - (run.v % 2^24)) % 2^24
                                      ELSE run.v % 2^24]

\* one %d of sscanf at position i: an optional sign and at least one digit
ScanInt(s, i) ==
    LET signed == At(s, i) = "-" \/ At(s, i) = "+"
        j == IF signed THEN i + 1 ELSE i
        run == DecRun(s, j, 0)
    IN  [ok |-> run.next > j,
         v |-> IF At(s, i) = "-" THEN -run.v ELSE run.v,
         next |-> run.next]

\* std::sscanf(s, "rgb(%d,%d,%d)", &r, &g, &b): the number of values
\* assigned, the values, and the position after the last one
Sscanf(s) ==
    LET none == [n |-> 0, r |-> 0, g |-> 0, b |-> 0, next |-> 1]
        r == ScanInt(s, 5)
        g == ScanInt(s, r.next + 1)
        b == ScanInt(s, g.next + 1)
    IN  IF ~(Len(s) >= 4 /\ SubSeq(s, 1, 4) = <<"r", "g", "b", "(">>) \/ ~r.ok
        THEN none
        ELSE IF At(s, r.next) # "," \/ ~g.ok
        THEN [none EXCEPT !.n = 1, !.r = r.v, !.next = r.next]
        ELSE IF At(s, g.next) # "," \/ ~b.ok
        THEN [none EXCEPT !.n = 2, !.r = r.v, !.g = g.v, !.next = g.next]
        ELSE [n |-> 3, r |-> r.v, g |-> g.v, b |-> b.v, next |-> b.next]

Black == <<0, 0, 0, 0>>

\* the colour of a '#' string from what std::stoul returned
HexColor(v) ==
    IF v.status # "ok" THEN [status |-> v.status, c |-> <<>>]
    ELSE [status |-> "ok",
          c |-> <<v.v % 256, (v.v \div 256) % 256, (v.v \div 65536) % 256, 0>>]

\* the colour of any other string from what std::sscanf returned
RgbColor(f, def) ==
    IF f.n = 3 THEN [status |-> "ok", c |-> <<f.b, f.g, f.r, 0>>]
    ELSE [status |-> "ok", c |-> def]

\* ParseColor(s, def): [status, c]; status "ok" or the exception thrown
ParseColor(s, def) ==
    IF s = <<>> THEN [status |-> "ok", c |-> def]
    ELSE IF s[1] = "#" THEN HexColor(Stoul(Tail(s)))
    ELSE RgbColor(Sscanf(s), def)

\* std::swap(c[0], c[2])
SwapRedBlue(c) == <<c[3], c[2], c[1], c[4]>>

\* cv::saturate_cast<uchar> of a number
Saturate(v) == Max(0, Min(255, v))

\* the channel count of the canvas type chosen for a format
CanvasChannels(fmt) ==
    IF fmt = "BGRA" \/ fmt = "RGBA" THEN 4 ELSE IF fmt = "GRAY" THEN 1 ELSE 3

\* a pixel of a Mat of n channels set from a Scalar
ScalarPixel(c, n) == [k \in 1..n |-> Saturate(c[k])]

\* std::swap(bgColor[0], bgColor[2]) for a canvas or image in an RGB order
InFormatOrder(c, fmt) == IF fmt = "RGB" \/ fmt = "RGBA" THEN SwapRedBlue(c) ELSE c

\* the Scalar handed to cv::Mat for a canvas of format fmt: alpha 255 for a
\* four-channel canvas, the mean of the three components for a grey one
CanvasScalar(ordered, fmt) ==
    IF fmt = "BGRA" \/ fmt = "RGBA"
    THEN <<ordered[1], ordered[2], ordered[3], 255>>
    ELSE IF fmt = "GRAY"
    THEN <<RoundDiv(ordered[1] + ordered[2] + ordered[3], 3), 0, 0, 0>>
    ELSE ordered

CanvasFillUnswapped(parsed, fmt) ==
    IF parsed.status # "ok" THEN [status |-> parsed.status, px |-> <<>>]
    ELSE [status |-> "ok",
          px |-> ScalarPixel(CanvasScalar(parsed.c, fmt), CanvasChannels(fmt))]

\* the background in the order ParseColor returns, whatever the canvas is
CanvasBackgroundUnswapped(s, fmt) == CanvasFillUnswapped(ParseColor(s, Black), fmt)

CanvasFill(parsed, fmt) ==
    IF parsed.status # "ok" THEN [status |-> parsed.status, px |-> <<>>]
    ELSE [status |-> "ok",
          px |-> ScalarPixel(CanvasScalar(InFormatOrder(parsed.c, fmt), fmt),
                             CanvasChannels(fmt))]

\* AdvancedMosaicWorker::Execute up to the allocation of canvas_: the pixel
\* every canvas position is filled with
CanvasBackground(s, fmt) == CanvasFill(ParseColor(s, Black), fmt)

BorderFill(parsed, fmt) ==
    IF parsed.status # "ok" THEN [status |-> parsed.status, px |-> <<>>]
    ELSE [status |-> "ok",
          px |-> ScalarPixel(InFormatOrder(parsed.c, fmt), Len(Layout(fmt)))]

\* the pixel cv::warpAffine writes outside the source with BORDER_CONSTANT
\* and the pad colour of ProcessImageFast and RotateWorker::Execute: the
\* first Scalar components, one per channel of the image
RotationBorder(s, fmt) == BorderFill(ParseColor(s, Black), fmt)

(***************************************************************************)
(* Specification SpecColour: one colour string, one format, one use.       *)
(***************************************************************************)
Chars(a, b, c, d, e, f) == <<"#", a, b, c, d, e, f>>

ColourStrings ==
    { <<>>,
      Chars("F", "F", "0", "0", "0", "0"), Chars("0", "0", "F", "F", "0", "0"),
      Chars("0", "0", "0", "0", "F", "F"), Chars("8", "0", "4", "0", "2", "0"),
      Chars("f", "f", "f", "f", "f", "f"), Chars("1", "0", "2", "0", "4", "0"),
      Chars("G", "G", "G", "G", "G", "G"), Chars("1", "2", "3", "4", "5", "G"),
      <<"#">>, <<"#", "1", "2">>, <<"#", "-", "1">>,
      <<"r", "e", "d">>,
      <<"r", "g", "b", "(", "1", ",", "2", ",", "3", ")">>,
      <<"r", "g", "b", "(", "2", "5", "5", ",", "0", ",", "0", ")">>,
      <<"r", "g", "b", "(", "3", "0", "0", ",", "-", "5", ",", "0", ")">>,
      <<"r", "g", "b", "(", "1", ",", "2", ",", "3">>,
      <<"r", "g", "b", "(", "1", ",", "2", ")">> }

InitColour ==
    /\ backgroundColor \in ColourStrings
    /\ colourFormat \in Formats
    /\ colourOp = "" /\ colourOut = NoColour
    /\ NegIdle /\ ConvIdle /\ CompIdle /\ XfIdle /\ CropIdle /\ ConcatIdle /\ BlendIdle
    /\ CallIdle /\ BorrowIdle

RunParseColor ==
    /\ colourOp = ""
    /\ colourOp' = "parse"
    /\ colourOut' = LET parsed == ParseColor(backgroundColor, Black)
                    IN  [status |-> parsed.status, px |-> parsed.c]
    /\ UNCHANGED <<backgroundColor, colourFormat, negVars, convVars, compVars, xfVars,
                   cropVars, concatVars, blendVars, callVars, borrowVars>>

RunCanvasBackground ==
    /\ colourOp = ""
    /\ colourOp' = "canvas"
    /\ colourOut' = CanvasBackground(backgroundColor, colourFormat)
    /\ UNCHANGED <<backgroundColor, colourFormat, negVars, convVars, compVars, xfVars,
                   cropVars, concatVars, blendVars, callVars, borrowVars>>

RunRotationBorder ==
    /\ colourOp = ""
    /\ colourOp' = "pad"
    /\ colourOut' = RotationBorder(backgroundColor, colourFormat)
    /\ UNCHANGED <<backgroundColor, colourFormat, negVars, convVars, compVars, xfVars,
                   cropVars, concatVars, blendVars, callVars, borrowVars>>

NextColour == RunParseColor \/ RunCanvasBackground \/ RunRotationBorder

SpecColour == InitColour /\ [][NextColour]_vars

(***************************************************************************)
(* Crop.  A requested number is held in quarters (v stands for v/4); Huge  *)
(* stands for every double (NaN and the infinities included) whose rounded *)
(* value no int can hold.                                                  *)
(***************************************************************************)
Huge == 2^24

\* what the conversion of an out-of-range double to int leaves in the int:
\* the conversion is undefined, so any int; these stand for all of them
OutOfRangeInts == {-2147483647, -1, 0, 1, 2147483647}

\* int(std::round(v * extent)) for a normalized request, int(std::lround(v))
\* for an absolute one: the ints the variable can hold afterwards
CropInts(v, extent, norm) ==
    IF v = Huge THEN OutOfRangeInts
    ELSE IF norm THEN {RoundDiv(v * extent, 4)} ELSE {RoundDiv(v, 4)}

\* std::clamp(v, lo, hi)
Clamp(v, lo, hi) == IF v < lo THEN lo ELSE IF hi < v THEN hi ELSE v

\* the rectangle with the extent clamped to the image size, not to what is
\* left of it after the origin
CropRectWholeExtent(W, H, x, y, width, height) ==
    [x |-> Clamp(x, 0, W - 1), y |-> Clamp(y, 0, H - 1),
     width |-> Clamp(width, 1, W), height |-> Clamp(height, 1, H)]

\* CropWorker::Execute, the clamping of the converted request
CropRect(W, H, x, y, width, height) ==
    LET cx == Clamp(x, 0, W - 1)
        cy == Clamp(y, 0, H - 1)
    IN  [x |-> cx, y |-> cy,
         width |-> Clamp(width, 1, W - cx), height |-> Clamp(height, 1, H - cy)]

\* input_(cv::Rect(x, y, width, height)): the region, or cv::Exception when
\* the rectangle is not inside the image
Roi(W, H, r) ==
    IF 0 <= r.x /\ 0 <= r.width /\ r.x + r.width <= W
       /\ 0 <= r.y /\ 0 <= r.height /\ r.y + r.height <= H
    THEN [status |-> "ok", x |-> r.x, y |-> r.y, width |-> r.width, height |-> r.height]
    ELSE [status |-> "error", x |-> r.x, y |-> r.y, width |-> r.width, height |-> r.height]

(***************************************************************************)
(* Specification SpecCrop: one crop call.                                  *)
(***************************************************************************)
MaxCropSide == 3

\* requested origins and extents, in quarters: -2, -1/2, 0, 1/4, 1/2, 1,
\* 3/2, 5 and an out-of-range number
CropOrigins == {-8, -2, 0, 1, 2, 4, 6, 20, Huge}
CropExtents == {-8, 0, 1, 2, 4, 6, 8, 20, Huge}

InitCrop ==
    /\ cropInput \in [cols : 1..MaxCropSide, rows : 1..MaxCropSide]
    /\ cropReq \in [x : CropOrigins, y : {-2, 0, 2, 4}, width : CropExtents,
                    height : {0, 2, 4, 20}, normalized : BOOLEAN]
    /\ cropOut = NoCrop
    /\ NegIdle /\ ConvIdle /\ CompIdle /\ XfIdle /\ ColourIdle /\ ConcatIdle /\ BlendIdle
    /\ CallIdle /\ BorrowIdle

CropExecute ==
    /\ cropOut = NoCrop
    /\ \E x \in CropInts(cropReq.x, cropInput.cols, cropReq.normalized),
          y \in CropInts(cropReq.y, cropInput.rows, cropReq.normalized),
          width \in CropInts(cropReq.width, cropInput.cols, cropReq.normalized),
          height \in CropInts(cropReq.height, cropInput.rows, cropReq.normalized) :
            cropOut' = Roi(cropInput.cols, cropInput.rows,
                           CropRect(cropInput.cols, cropInput.rows, x, y, width, height))
    /\ UNCHANGED <<cropInput, cropReq, negVars, convVars, compVars, xfVars, colourVars,
                   concatVars, blendVars, callVars, borrowVars>>

NextCrop == CropExecute

SpecCrop == InitCrop /\ [][NextCrop]_vars

(***************************************************************************)
(* Concat.  A pixel of the result is <<i, x, y>>: pixel (x, y) of input    *)
(* image i, <<-i, x, y>>: pixel (x, y) of input image i after cv::resize,  *)
(* or Pad, the pad colour in the order of the output format.               *)
(***************************************************************************)
Pad == <<0, 0, 0>>

\* the constructor's reading of the direction name
Direction(name) ==
    IF name = "right" THEN "RIGHT"
    ELSE IF name = "left" THEN "LEFT"
    ELSE IF name = "up" THEN "UP"
    ELSE "DOWN"

\* std::string::find("resize") on the names of the model
ContainsResize(name) == name \in {"resize", "resize-all"}

\* the constructor's reading of the strategy name
Strategy(name) ==
    IF ContainsResize(name) THEN "RESIZE"
    ELSE IF name = "pad-start" THEN "PAD_START"
    ELSE IF name = "pad-end" THEN "PAD_END"
    ELSE "PAD_BOTH"

\* input image i with its own pixels
Tile(ms, i) ==
    [cols |-> ms[i].cols, rows |-> ms[i].rows,
     px |-> [p \in Grid(ms[i].cols, ms[i].rows) |-> <<i, p[1], p[2]>>]]

\* cv::resize of an image to a size: every pixel is interpolated; an empty
\* size raises cv::Exception
ResizeTile(im, i, w, h) ==
    IF w <= 0 \/ h <= 0 THEN NoImage
    ELSE [cols |-> w, rows |-> h, px |-> [p \in Grid(w, h) |-> <<-i, p[1], p[2]>>]]

\* cv::copyMakeBorder(src, dst, top, bottom, left, right, BORDER_CONSTANT, pad)
CopyMakeBorder(im, top, bottom, left, right) ==
    [cols |-> im.cols + left + right, rows |-> im.rows + top + bottom,
     px |-> [p \in Grid(im.cols + left + right, im.rows + top + bottom) |->
                IF /\ left <= p[1] /\ p[1] < left + im.cols
                   /\ top <= p[2] /\ p[2] < top + im.rows
                THEN im.px[<<p[1] - left, p[2] - top>>]
                ELSE Pad]]

\* pad-both with the larger half before the tile
PadBeforeLargerHalf(strategy, delta) ==
    CASE strategy = "PAD_START" -> delta
      [] strategy = "PAD_END" -> 0
      [] strategy = "PAD_BOTH" -> delta - delta \div 2

\* the switch on the strategy: the pad before the tile (after = delta - before)
PadBefore(strategy, delta) ==
    CASE strategy = "PAD_START" -> delta
      [] strategy = "PAD_END" -> 0
      [] strategy = "PAD_BOTH" -> delta \div 2

\* one iteration of the tile loop of Execute
ProcessTile(ms, i, strategy, isHorizontal, baseSize) ==
    LET m == Tile(ms, i)
        delta == IF isHorizontal THEN baseSize - m.rows ELSE baseSize - m.cols
        before == PadBefore(strategy, delta)
    IN  IF strategy = "RESIZE" THEN
            IF isHorizontal
            THEN ResizeTile(m, i, (m.cols * baseSize) \div m.rows, baseSize)
            ELSE ResizeTile(m, i, baseSize, (m.rows * baseSize) \div m.cols)
        ELSE IF delta <= 0 THEN m
        ELSE IF isHorizontal THEN CopyMakeBorder(m, before, delta - before, 0, 0)
        ELSE CopyMakeBorder(m, 0, 0, before, delta - before)

\* total extent of the first k tiles along the main axis
RECURSIVE Extent(_, _, _)
Extent(tiles, k, isHorizontal) ==
    IF k = 0 THEN 0
    ELSE Extent(tiles, k - 1, isHorizontal)
         + (IF isHorizontal THEN tiles[k].cols ELSE tiles[k].rows)

\* the tile that holds main-axis coordinate c
TileAt(tiles, c, isHorizontal) ==
    CHOOSE k \in 1..Len(tiles) :
        Extent(tiles, k - 1, isHorizontal) <= c /\ c < Extent(tiles, k, isHorizontal)

\* cv::hconcat: NoImage when the tiles do not all have the same rows
Hconcat(tiles) ==
    IF \E k \in 1..Len(tiles) : tiles[k] = NoImage \/ tiles[k].rows # tiles[1].rows
    THEN NoImage
    ELSE LET w == Extent(tiles, Len(tiles), TRUE)
         IN  [cols |-> w, rows |-> tiles[1].rows,
              px |-> [p \in Grid(w, tiles[1].rows) |->
                         LET k == TileAt(tiles, p[1], TRUE)
                         IN  tiles[k].px[<<p[1] - Extent(tiles, k - 1, TRUE), p[2]>>]]]

\* cv::vconcat: NoImage when the tiles do not all have the same cols
Vconcat(tiles) ==
    IF \E k \in 1..Len(tiles) : tiles[k] = NoImage \/ tiles[k].cols # tiles[1].cols
    THEN NoImage
    ELSE LET h == Extent(tiles, Len(tiles), FALSE)
         IN  [cols |-> tiles[1].cols, rows |-> h,
              px |-> [p \in Grid(tiles[1].cols, h) |->
                         LET k == TileAt(tiles, p[2], FALSE)
                         IN  tiles[k].px[<<p[1], p[2] - Extent(tiles, k - 1, FALSE)>>]]]

\* a flip around the horizontal axis in place of the one around the vertical
FlipRows(im) ==
    [im EXCEPT !.px = [p \in Grid(im.cols, im.rows) |-> im.px[<<p[1], im.rows - 1 - p[2]>>]]]

\* cv::flip(result, result, 1)
Flip(im) ==
    [im EXCEPT !.px = [p \in Grid(im.cols, im.rows) |-> im.px[<<im.cols - 1 - p[1], p[2]>>]]]

\* std::reverse
Reverse(seq) == [k \in 1..Len(seq) |-> seq[Len(seq) + 1 - k]]

\* the largest of the images' cols (rows): maxW (maxH) of the constructor
MaxOver(ms, field) ==
    CHOOSE v \in {ms[i][field] : i \in 1..Len(ms)} :
        \A i \in 1..Len(ms) : ms[i][field] <= v

\* ConcatWorker: constructor and Execute, raw output
ConcatExecute(ms, dirName, stratName) ==
    LET direction == Direction(dirName)
        strategy == Strategy(stratName)
        outputChannel == DetermineOutputFormatConcat([i \in 1..Len(ms) |-> ms[i].format])
        isHorizontal == direction \in {"RIGHT", "LEFT"}
        baseSize == IF isHorizontal THEN MaxOver(ms, "rows") ELSE MaxOver(ms, "cols")
        converted == \A i \in 1..Len(ms) :
                         ConvertToTargetFormat(Layout(ms[i].format), ms[i].format,
                                               outputChannel).ok
        tiles == [i \in 1..Len(ms) |-> ProcessTile(ms, i, strategy, isHorizontal, baseSize)]
        result == IF isHorizontal
                  THEN LET joined == Hconcat(tiles)
                       IN  IF direction = "LEFT" /\ joined # NoImage THEN Flip(joined)
                           ELSE joined
                  ELSE IF direction = "UP" THEN Vconcat(Reverse(tiles))
                  ELSE Vconcat(tiles)
    IN  IF ~converted \/ result = NoImage
        THEN [status |-> "error", outputChannel |-> outputChannel, result |-> NoImage]
        ELSE [status |-> "ok", outputChannel |-> outputChannel, result |-> result]

(***************************************************************************)
(* Specification SpecConcat: one concat call.                              *)
(***************************************************************************)
MaxTileSide == 3
MaxTiles == 2

\* colorSpace of the i-th image of a call
TileFormats == <<"BGR", "GRAY", "RGBA", "RGB", "BGRA">>
FormatOfTile(i) == TileFormats[((i - 1) % 5) + 1]

DirectionNames == {"right", "left", "up", "down", "diagonal"}
StrategyNames == {"pad-start", "pad-end", "pad-both", "resize", "resize-all", "center"}

InitConcat ==
    /\ \E n \in 1..MaxTiles :
         \E sizes \in [1..n -> (1..MaxTileSide) \X (1..MaxTileSide)] :
            mats = [i \in 1..n |-> [cols |-> sizes[i][1], rows |-> sizes[i][2],
                                    format |-> FormatOfTile(i)]]
    /\ dir \in DirectionNames
    /\ strat \in StrategyNames
    /\ concatOut = NoConcat
    /\ NegIdle /\ ConvIdle /\ CompIdle /\ XfIdle /\ ColourIdle /\ CropIdle /\ BlendIdle
    /\ CallIdle /\ BorrowIdle

RunConcat ==
    /\ concatOut = NoConcat
    /\ concatOut' = ConcatExecute(mats, dir, strat)
    /\ UNCHANGED <<mats, dir, strat, negVars, convVars, compVars, xfVars, colourVars,
                   cropVars, blendVars, callVars, borrowVars>>

NextConcat == RunConcat

SpecConcat == InitConcat /\ [][NextConcat]_vars

(***************************************************************************)
(* Blend.  An image is [format, cols, rows, colour]: every pixel has the   *)
(* same channel values, colour, which cv::resize keeps.  Weights are in    *)
(* quarters: 4 stands for 1.0.                                             *)
(***************************************************************************)
\* red, green, blue and alpha of a pixel of a format
Components(px, fmt) ==
    CASE fmt = "GRAY" -> [r |-> px[1], g |-> px[1], b |-> px[1], a |-> 255]
      [] fmt = "BGR"  -> [r |-> px[3], g |-> px[2], b |-> px[1], a |-> 255]
      [] fmt = "RGB"  -> [r |-> px[1], g |-> px[2], b |-> px[3], a |-> 255]
      [] fmt = "BGRA" -> [r |-> px[3], g |-> px[2], b |-> px[1], a |-> px[4]]
      [] fmt = "RGBA" -> [r |-> px[1], g |-> px[2], b |-> px[3], a |-> px[4]]

\* the pixel of a format with the given components
Compose(c, fmt) ==
    CASE fmt = "GRAY" -> <<RoundDiv(299 * c.r + 587 * c.g + 114 * c.b, 1000)>>
      [] fmt = "BGR"  -> <<c.b, c.g, c.r>>
      [] fmt = "RGB"  -> <<c.r, c.g, c.b>>
      [] fmt = "BGRA" -> <<c.b, c.g, c.r, c.a>>
      [] fmt = "RGBA" -> <<c.r, c.g, c.b, c.a>>

\* the converter blend calls: the input itself for equal formats, the direct
\* layout conversion for each of the twenty pairs of formats, an error
\* otherwise
ConvertToTargetFormatShared(px, srcFormat, targetFormat) ==
    IF srcFormat = targetFormat THEN [ok |-> TRUE, px |-> px]
    ELSE IF srcFormat \in Formats /\ targetFormat \in Formats
    THEN [ok |-> TRUE, px |-> Compose(Components(px, srcFormat), targetFormat)]
    ELSE [ok |-> FALSE, px |-> <<>>]

\* the opacity as the caller passed it
OpacityAsPassed(q) == q

\* std::max(0.0, std::min(1.0, opacity)) of the binding
ClampOpacity(q) == Max(0, Min(4, q))

\* cvRound of n/4: to nearest, halves to even
RoundQuarters(n) ==
    LET f == n \div 4
        r == n % 4
    IN  IF r < 2 THEN f
        ELSE IF r > 2 THEN f + 1
        ELSE IF f % 2 = 0 THEN f ELSE f + 1

\* cv::addWeighted(img1, alpha, img2, beta, 0.0, result) on one pixel
AddWeighted(px1, alpha, px2, beta) ==
    [k \in 1..Len(px1) |-> Saturate(RoundQuarters(px1[k] * alpha + px2[k] * beta))]

\* the Blend binding and BlendWorker::Execute, raw output
BlendExecute(m1, m2, q) ==
    LET o == ClampOpacity(q)
        outputChannel == DetermineOutputFormatBlend(m1.format, m2.format)
        img1 == ConvertToTargetFormatShared(m1.colour, m1.format, outputChannel)
        img2 == ConvertToTargetFormatShared(m2.colour, m2.format, outputChannel)
        width == Max(m1.cols, m2.cols)
        height == Max(m1.rows, m2.rows)
    IN  IF ~img1.ok \/ ~img2.ok \/ Len(img1.px) # Len(img2.px)
        THEN [NoBlend EXCEPT !.status = "error", !.outputChannel = outputChannel]
        ELSE [status |-> "ok", outputChannel |-> outputChannel,
              cols |-> width, rows |-> height,
              colour |-> AddWeighted(img1.px, o, img2.px, 4 - o)]

(***************************************************************************)
(* Specification SpecBlend: one blend call.                                *)
(***************************************************************************)
MaxBlendSide == 2

\* two colours for each format
BlendColours(fmt) ==
    CASE fmt = "GRAY" -> {<<100>>, <<7>>}
      [] fmt = "BGR"  -> {<<10, 20, 30>>, <<255, 0, 9>>}
      [] fmt = "RGB"  -> {<<40, 50, 60>>, <<1, 254, 3>>}
      [] fmt = "BGRA" -> {<<70, 80, 90, 128>>, <<0, 255, 13, 0>>}
      [] fmt = "RGBA" -> {<<15, 25, 35, 200>>, <<250, 2, 5, 255>>}

BlendImages ==
    UNION {[format : {f}, cols : 1..MaxBlendSide, rows : 1..MaxBlendSide,
            colour : BlendColours(f)] : f \in Formats}

\* -1, 0, 1/4, 1/2, 3/4, 1 and 2
Opacities == {-4, 0, 1, 2, 3, 4, 8}

InitBlend ==
    /\ mat1 \in BlendImages /\ mat2 \in BlendImages
    /\ opacity \in Opacities
    /\ blendOut = NoBlend
    /\ NegIdle /\ ConvIdle /\ CompIdle /\ XfIdle /\ ColourIdle /\ CropIdle /\ ConcatIdle
    /\ CallIdle /\ BorrowIdle

RunBlend ==
    /\ blendOut = NoBlend
    /\ blendOut' = BlendExecute(mat1, mat2, opacity)
    /\ UNCHANGED <<mat1, mat2, opacity, negVars, convVars, compVars, xfVars, colourVars,
                   cropVars, concatVars, callVars, borrowVars>>

NextBlend == RunBlend

SpecBlend == InitBlend /\ [][NextBlend]_vars

(***************************************************************************)
(* The life of a queued call: MosaicWorker and AdvancedMosaicWorker.       *)
(* Execute runs on a worker thread; an exception that leaves it is caught  *)
(* by Napi::AsyncWorker, which records it with SetError.  OnWorkComplete   *)
(* then calls OnOK or OnError, and each of them calls the callback once.   *)
(* What a position or directive does is abstracted to its outcome: "copy"  *)
(* paints the canvas, "skip" returns early, "throw" is a cv::Exception     *)
(* raised by cvtColor on an image whose channel count contradicts its      *)
(* declared colour space.                                                  *)
(***************************************************************************)
CallWorkers == {"mosaic", "advanced"}
ItemOutcomes == {"copy", "skip", "throw"}
ColourOutcomes == {"ok", "throw"}
\* "bmp" is a format ParseImageFormat does not know: it becomes RAW, which
\* EncodeToFormat refuses with std::runtime_error.
OutputFormats == {"raw", "jpg", "bmp"}
MaxItems == 5

\* The placement loop of MosaicWorker is an OpenMP parallel loop for more
\* than ParallelThreshold positions; AdvancedMosaicWorker's is sequential.
RunsParallel(worker, items) == worker = "mosaic" /\ Len(items) > ParallelThreshold

\* The items whose pixels are on the canvas.
Painted(items, todo) == {i \in DOMAIN items : i \notin todo /\ items[i] = "copy"}

\* EncodeToFormat: "ok" or "throw".
EncodeToFormat(format) == IF format = "bmp" THEN "throw" ELSE "ok"

InitCall ==
    /\ NegIdle /\ ConvIdle /\ CompIdle /\ XfIdle
    /\ ColourIdle /\ CropIdle /\ ConcatIdle /\ BlendIdle /\ BorrowIdle
    /\ callWorker \in CallWorkers
    /\ \E n \in 0..MaxItems : callItems \in [1..n -> ItemOutcomes]
    /\ callBg \in ColourOutcomes
    /\ callFormat \in OutputFormats
    /\ callPc = "queued"
    /\ callTodo = DOMAIN callItems
    /\ callError = FALSE
    /\ callbacks = <<>>

\* Execute up to the allocation of the canvas.
CallExecuteBegin ==
    /\ callPc = "queued"
    /\ IF callBg = "throw"
       THEN callPc' = "returned" /\ callError' = TRUE
       ELSE callPc' = "placing" /\ callError' = FALSE
    /\ UNCHANGED <<negVars, convVars, compVars, xfVars, colourVars, cropVars,
                   concatVars, blendVars, borrowVars, callWorker, callItems, callBg, callFormat,
                   callTodo, callbacks>>

\* One turn of a sequential placement loop, in the order of the list.
PlaceInOrder ==
    /\ callPc = "placing" /\ callTodo # {}
    /\ ~RunsParallel(callWorker, callItems)
    /\ LET i == CHOOSE k \in callTodo : \A j \in callTodo : k <= j IN
       /\ callTodo' = callTodo \ {i}
       /\ IF callItems[i] = "throw"
          THEN callPc' = "returned" /\ callError' = TRUE
          ELSE UNCHANGED <<callPc, callError>>
    /\ UNCHANGED <<negVars, convVars, compVars, xfVars, colourVars, cropVars,
                   concatVars, blendVars, borrowVars, callWorker, callItems, callBg, callFormat,
                   callbacks>>

\* One iteration of the parallel placement loop, in any order.  An exception
\* that leaves an OpenMP parallel region ends the process (std::terminate);
\* in a build without OpenMP the pragma is ignored and the exception leaves
\* Execute like any other.
PlaceInParallel ==
    /\ callPc = "placing" /\ callTodo # {}
    /\ RunsParallel(callWorker, callItems)
    /\ \E i \in callTodo :
       /\ callTodo' = callTodo \ {i}
       /\ IF callItems[i] = "throw"
          THEN \/ callPc' = "terminated" /\ UNCHANGED callError
               \/ callPc' = "returned" /\ callError' = TRUE
          ELSE UNCHANGED <<callPc, callError>>
    /\ UNCHANGED <<negVars, convVars, compVars, xfVars, colourVars, cropVars,
                   concatVars, blendVars, borrowVars, callWorker, callItems, callBg, callFormat,
                   callbacks>>

\* The end of Execute: the optional encoding.
CallExecuteEnd ==
    /\ callPc = "placing" /\ callTodo = {}
    /\ callPc' = "returned"
    /\ callError' = (callFormat # "raw" /\ EncodeToFormat(callFormat) = "throw")
    /\ UNCHANGED <<negVars, convVars, compVars, xfVars, colourVars, cropVars,
                   concatVars, blendVars, borrowVars, callWorker, callItems, callBg, callFormat,
                   callTodo, callbacks>>

\* Napi::AsyncWorker::OnWorkComplete: OnOK hands over the canvas, OnError
\* the error and a null result.
OnWorkComplete ==
    /\ callPc = "returned"
    /\ callPc' = "completed"
    /\ callbacks' = Append(callbacks,
          IF callError
          THEN [error |-> TRUE, image |-> FALSE, canvas |-> {}]
          ELSE [error |-> FALSE, image |-> TRUE,
                canvas |-> Painted(callItems, callTodo)])
    /\ UNCHANGED <<negVars, convVars, compVars, xfVars, colourVars, cropVars,
                   concatVars, blendVars, borrowVars, callWorker, callItems, callBg, callFormat,
                   callTodo, callError>>

NextCall == CallExecuteBegin \/ PlaceInOrder \/ PlaceInParallel \/ CallExecuteEnd \/ OnWorkComplete
SpecCall == InitCall /\ [][NextCall]_vars

(***************************************************************************)
(* Who owns which pixels: the input images of a compositing call.          *)
(* A cv::Mat is a header on a reference-counted buffer: copying a Mat      *)
(* shares the buffer, clone() copies it.  The heap is the sequence of      *)
(* buffers, a Mat is an index into it, and the first buffers are the       *)
(* images the caller passed in.  An OpenCV function called with the same   *)
(* Mat as source and destination calls Mat::create on the destination,     *)
(* which keeps the buffer when size and type are unchanged (the result is  *)
(* then written over the source's pixels) and allocates a new one          *)
(* otherwise.  Buffers allocated during a directive are released at its    *)
(* end.  Pixels are named as in the rotation model.                        *)
(***************************************************************************)
MaxBorrowSide == 2
MaxDirectives == 2

NewBuffer(h, im) == [heap |-> Append(h, im), mat |-> Len(h) + 1]

\* cv::Mat::create followed by the write of the result
Create(h, m, im) ==
    IF im.cols = h[m].cols /\ im.rows = h[m].rows
        THEN [heap |-> [h EXCEPT ![m] = im], mat |-> m]
        ELSE NewBuffer(h, im)

\* cv::Mat img = images_[i]; a second header on the input's buffer
ShareHeader(h, m) == [heap |-> h, mat |-> m]

\* the working image of a directive as a header on the input's buffer
CloneSharing(h, m) == [heap |-> h, mat |-> m]

\* cv::Mat img = images_[i].clone();
Clone(h, m) == NewBuffer(h, h[m])

\* the pixels cv::resize computes: a copy for an unchanged size
CvResizeMat(im, size) ==
    IF size = <<im.cols, im.rows>> THEN im ELSE WarpAffine(size)

\* steps 1 and 2 of ProcessImageFast as functions of the image
Transformed(im, config) ==
    LET resized == IF config.width > 0 \/ config.height > 0
                       THEN CvResizeMat(im, TargetSize(config, im.cols, im.rows))
                       ELSE im
    IN  RotateStep(resized, config.rotation).img

\* ProcessImageFast up to the placement: img and the heap it leaves
BorrowProcessImage(h, config) ==
    LET img == Clone(h, config.arrayIndex + 1)
        im0 == img.heap[img.mat]
        s1  == IF config.width > 0 \/ config.height > 0
                   THEN Create(img.heap, img.mat,
                               CvResizeMat(im0, TargetSize(config, im0.cols, im0.rows)))
                   ELSE img
        im1 == s1.heap[s1.mat]
    IN  IF RotationPath(config.rotation) \in {"none", "rot0"} THEN s1
        ELSE Create(s1.heap, s1.mat, RotateStep(im1, config.rotation).img)

\* ConvertToTargetFormat: the source's header for equal formats, a new
\* buffer filled by cv::cvtColor otherwise
BorrowConvert(h, m, same) == IF same THEN ShareHeader(h, m) ELSE NewBuffer(h, h[m])

\* ConvertToTargetFormatShared: an image already in the target format is
\* returned unchanged, any other is converted into a new image
BorrowConvertShared(h, m, same) == IF same THEN ShareHeader(h, m) ELSE NewBuffer(h, h[m])

\* BlendWorker::Execute: the heap after the call
BorrowBlend(h, same) ==
    LET c1 == BorrowConvertShared(h, 1, same[1])
        c2 == BorrowConvertShared(c1.heap, 2, same[2])
        i1 == c2.heap[c1.mat]
        i2 == c2.heap[c2.mat]
        targetSize == <<Max(i1.cols, i2.cols), Max(i1.rows, i2.rows)>>
        r1 == IF <<i1.cols, i1.rows>> # <<i2.cols, i2.rows>>
                  /\ <<i1.cols, i1.rows>> # targetSize
                  THEN Create(c2.heap, c1.mat, CvResizeMat(i1, targetSize))
                  ELSE [heap |-> c2.heap, mat |-> c1.mat]
        r2 == IF <<i1.cols, i1.rows>> # <<i2.cols, i2.rows>>
                  /\ <<i2.cols, i2.rows>> # targetSize
                  THEN Create(r1.heap, c2.mat, CvResizeMat(i2, targetSize))
                  ELSE [heap |-> r1.heap, mat |-> c2.mat]
    IN  NewBuffer(r2.heap, WarpAffine(targetSize)).heap

\* one tile of ConcatWorker::Execute, for a horizontal direction
BorrowTile(h, m, same, strategy, baseSize) ==
    LET c  == BorrowConvert(h, m, same)
        im == c.heap[c.mat]
    IN  IF strategy = "resize"
            THEN NewBuffer(c.heap, WarpAffine(<<(im.cols * baseSize) \div im.rows, baseSize>>))
        ELSE IF baseSize - im.rows <= 0 THEN c
        ELSE NewBuffer(c.heap, WarpAffine(<<im.cols, baseSize>>))

\* ConcatWorker::Execute: cv::hconcat into result, flipped in place for "left"
BorrowConcat(h, same, strategy, direction) ==
    LET baseSize == Max(h[1].rows, h[2].rows)
        t1 == BorrowTile(h, 1, same[1], strategy, baseSize)
        t2 == BorrowTile(t1.heap, 2, same[2], strategy, baseSize)
        w  == t2.heap[t1.mat].cols + t2.heap[t2.mat].cols
        result == NewBuffer(t2.heap, WarpAffine(<<w, baseSize>>))
    IN  IF direction = "left"
            THEN Create(result.heap, result.mat, WarpAffine(<<w, baseSize>>)).heap
            ELSE result.heap

\* what is left of the heap when the locals of a call have gone
Release(h) == SubSeq(h, 1, Len(passed))

\* [width, height, rotation] of the directives: none, a resize, the three
\* exact rotations, the affine path, and a resize with a rotation
BorrowTransforms ==
    {<<0, 0, 0>>, <<2, 2, 0>>, <<0, 0, Deg(180)>>, <<0, 0, Deg(90)>>, <<0, 0, Deg(30)>>,
     <<1, 1, Deg(180)>>}
BorrowDirectives ==
    {[arrayIndex |-> a, width |-> t[1], height |-> t[2], rotation |-> t[3]] :
        a \in {0, 1}, t \in BorrowTransforms}
BorrowPositions == {d \in BorrowDirectives : d.width = 0 /\ d.rotation = 0}
BorrowInputs ==
    {<<SourceImage(c, r), SourceImage(1, 1)>> : c \in 1..MaxBorrowSide, r \in 1..MaxBorrowSide}
BorrowCalls ==
    {[kind |-> "advanced", directives |-> ds, same |-> <<>>, strategy |-> "",
      direction |-> ""] : ds \in SeqsUpTo(BorrowDirectives, MaxDirectives)}
    \cup {[kind |-> "mosaic", directives |-> ds, same |-> <<>>, strategy |-> "",
           direction |-> ""] : ds \in SeqsUpTo(BorrowPositions, MaxDirectives)}
    \cup {[kind |-> k, directives |-> <<>>, same |-> <<s1, s2>>, strategy |-> st,
           direction |-> d] :
             k \in {"blend"}, s1 \in BOOLEAN, s2 \in BOOLEAN, st \in {""}, d \in {""}}
    \cup {[kind |-> k, directives |-> <<>>, same |-> <<s1, s2>>, strategy |-> st,
           direction |-> d] :
             k \in {"concat"}, s1 \in BOOLEAN, s2 \in BOOLEAN,
             st \in {"resize", "pad-end"}, d \in {"right", "left"}}

InitBorrow ==
    /\ NegIdle /\ ConvIdle /\ CompIdle /\ XfIdle
    /\ ColourIdle /\ CropIdle /\ ConcatIdle /\ BlendIdle /\ CallIdle
    /\ passed \in BorrowInputs
    /\ heap = passed
    /\ borrowOp \in BorrowCalls
    /\ borrowDone = 0
    /\ transformed = <<>>

\* AdvancedMosaicWorker::Execute: one turn of the loop over the directives
BorrowAdvancedDirective ==
    /\ borrowOp.kind = "advanced" /\ borrowDone < Len(borrowOp.directives)
    /\ LET r == BorrowProcessImage(heap, borrowOp.directives[borrowDone + 1]) IN
       /\ transformed' = Append(transformed, r.heap[r.mat])
       /\ heap' = Release(r.heap)
    /\ borrowDone' = borrowDone + 1
    /\ UNCHANGED <<negVars, convVars, compVars, xfVars, colourVars, cropVars,
                   concatVars, blendVars, callVars, passed, borrowOp>>

\* MosaicWorker::Execute: PlaceImageFast reads images_[i] through a const
\* reference and converts into a Mat of its own
BorrowMosaicPosition ==
    /\ borrowOp.kind = "mosaic" /\ borrowDone < Len(borrowOp.directives)
    /\ LET img == ShareHeader(heap, borrowOp.directives[borrowDone + 1].arrayIndex + 1) IN
       /\ transformed' = Append(transformed, img.heap[img.mat])
       /\ heap' = Release(img.heap)
    /\ borrowDone' = borrowDone + 1
    /\ UNCHANGED <<negVars, convVars, compVars, xfVars, colourVars, cropVars,
                   concatVars, blendVars, callVars, passed, borrowOp>>

RunBorrowBlend ==
    /\ borrowOp.kind = "blend" /\ borrowDone = 0
    /\ heap' = Release(BorrowBlend(heap, borrowOp.same))
    /\ borrowDone' = 1
    /\ UNCHANGED <<negVars, convVars, compVars, xfVars, colourVars, cropVars,
                   concatVars, blendVars, callVars, passed, borrowOp, transformed>>

RunBorrowConcat ==
    /\ borrowOp.kind = "concat" /\ borrowDone = 0
    /\ heap' = Release(BorrowConcat(heap, borrowOp.same, borrowOp.strategy,
                                    borrowOp.direction))
    /\ borrowDone' = 1
    /\ UNCHANGED <<negVars, convVars, compVars, xfVars, colourVars, cropVars,
                   concatVars, blendVars, callVars, passed, borrowOp, transformed>>

NextBorrow ==
    BorrowAdvancedDirective \/ BorrowMosaicPosition \/ RunBorrowBlend \/ RunBorrowConcat
SpecBorrow == InitBorrow /\ [][NextBorrow]_vars

(***************************************************************************)
(* Claims on negotiation and conversion                                    *)
(***************************************************************************)
\* the priority order RGBA > BGRA > RGB > BGR > GRAY
Priority(f) ==
    CASE f = "RGBA" -> 5 [] f = "BGRA" -> 4 [] f = "RGB" -> 3 [] f = "BGR" -> 2
      [] OTHER -> 1

Present(chs) == {chs[i] : i \in 1..Len(chs)}

Highest(S) == CHOOSE f \in S : \A g \in S : Priority(f) >= Priority(g)

\* C1: for every non-empty list of the five formats each negotiator (mosaic,
\* advanced mosaic, concat, and blend on two inputs) returns the format of
\* highest priority among those present, a function of the set of formats in
\* the list alone.
C1_NegotiationByPriority ==
    channels # <<>> =>
        /\ negotiated.mosaic   \in {"", Highest(Present(channels))}
        /\ negotiated.advanced \in {"", Highest(Present(channels))}
        /\ negotiated.concat   \in {"", Highest(Present(channels))}
        /\ negotiated.blend    \in {"", Highest(Present(channels))}

C1_Witness ==
    /\ channels = <<"BGR", "RGBA", "GRAY">>
    /\ negotiated.mosaic = "RGBA"
    /\ negotiated.advanced = "RGBA"
    /\ negotiated.concat = "RGBA"

\* C2: over the empty list every list negotiator (mosaic, advanced mosaic,
\* concat) returns BGR.
C2_EmptyListIsBGR ==
    channels = <<>> =>
        /\ negotiated.mosaic   \in {"", "BGR"}
        /\ negotiated.advanced \in {"", "BGR"}
        /\ negotiated.concat   \in {"", "BGR"}

\* C4: for each of the 20 ordered pairs of distinct formats the converter
\* (concat's ConvertToTargetFormat and the conversion chain of the mosaic
\* workers) returns an image with the channel count and order of the target.
C4_AllTwentyPairs ==
    (/\ convOut.by \in {"concat", "canvas"}
     /\ convSrc.format \in Formats
     /\ convTarget \in Formats
     /\ convSrc.format # convTarget)
    => convOut.ok /\ Conforms(convOut.lay, convTarget)

\* C5: a converter given a format name it does not recognise, or a pair it
\* has no conversion for, fails; it never returns the source buffer as the
\* result of a conversion between two different formats.
C5_UnsupportedPairFails ==
    /\ (/\ convOut.by \in {"concat", "canvas"}
        /\ convSrc.format # convTarget
        /\ convSrc.format \notin Formats)
       => ~convOut.ok
    /\ (/\ convOut.by \in {"concat", "canvas"}
        /\ convSrc.format # convTarget
        /\ convOut.ok)
       => convOut.lay # convSrc.lay
    /\ (convOut.by = "encode" /\ convSrc.format \notin Formats /\ Len(convSrc.lay) # 1)
       => ~convOut.ok

(***************************************************************************)
(* Claims on compositing                                                   *)
(***************************************************************************)
\* C3: no copy into the canvas mixes formats: every canvas pixel that was
\* copied from an image, and every region a thread is copying, has exactly
\* the channel count and channel order of the negotiated canvas format, for
\* every pair of input formats, in both workers.
C3_NoCrossFormatCopy ==
    /\ \A p \in DOMAIN canvas :
          canvas[p].from # 0 => Conforms(canvas[p].lay, canvasChannel)
    /\ \A t \in DOMAIN workers :
          workers[t].i # 0 =>
              Conforms(PlaceImageFast(positions[workers[t].i]).lay, canvasChannel)

\* a BGR image was converted and copied into an RGBA canvas by the mosaic
\* worker, and a rotated RGB image into a BGRA canvas by the advanced one
C3_Witness ==
    /\ pc = "done"
    /\ \/ /\ op = "mosaic"
          /\ imageChannels = <<"BGR", "RGBA">>
          /\ canvasChannel = "RGBA"
          /\ \E p \in DOMAIN canvas :
                /\ canvas[p].from # 0
                /\ positions[canvas[p].from].arrayIndex = 0
                /\ canvas[p].lay = <<"R", "G", "B", "A">>
       \/ /\ op = "advanced"
          /\ imageChannels = <<"BGRA", "RGB">>
          /\ canvasChannel = "BGRA"
          /\ \E p \in DOMAIN canvas, i \in DOMAIN imageConfigs :
                /\ canvas[p].from = imageConfigs[i].id
                /\ imageConfigs[i].arrayIndex = 1
                /\ imageConfigs[i].rotation = Deg(45)

\* what a directive refers to, in the claims' terms
Unreferenced(d) ==
    \/ d.arrayIndex < 0
    \/ d.arrayIndex >= Len(images)
    \/ images[d.arrayIndex + 1].cols = 0
    \/ images[d.arrayIndex + 1].rows = 0

\* the transformed size of a directive's image and its placement position
SizeOf(d) ==
    LET img == images[d.arrayIndex + 1]
        t   == TargetSize(d, img.cols, img.rows)
    IN  RotatedSize(d.rotation, t[1], t[2])
XOf(d) == PlaceCoord(d.x, CanvasW, normalized)
YOf(d) == PlaceCoord(d.y, CanvasH, normalized)

\* the directive's image, placed at its position, lies over canvas pixel p
Covers(d, p) ==
    /\ ~Unreferenced(d)
    /\ XOf(d) <= p[1] /\ p[1] < XOf(d) + SizeOf(d)[1]
    /\ YOf(d) <= p[2] /\ p[2] < YOf(d) + SizeOf(d)[2]

\* C6: after an advanced mosaic call every canvas pixel holds the converted
\* pixel of a directive of greatest zIndex among those whose image covers
\* the pixel (the pixel of that image at the matching offset), and the
\* background if none covers it.
C6_HighestZIndexWins ==
    (op = "advanced" /\ pc = "done") =>
        \A p \in DOMAIN canvas :
            LET over == {i \in DOMAIN imageConfigs : Covers(imageConfigs[i], p)}
            IN  IF over = {}
                    THEN canvas[p] = [from |-> 0, sx |-> 0, sy |-> 0,
                                      lay |-> BackgroundLayout(canvasChannel)]
                    ELSE \E i \in over :
                            /\ \A j \in over :
                                  imageConfigs[j].zIndex <= imageConfigs[i].zIndex
                            /\ canvas[p].from = imageConfigs[i].id
                            /\ canvas[p].sx = p[1] - XOf(imageConfigs[i])
                            /\ canvas[p].sy = p[2] - YOf(imageConfigs[i])
                            /\ Conforms(canvas[p].lay, canvasChannel)

\* the caller's first directive has zIndex 1, the second zIndex 0, both cover
\* the first pixel, and the first directive's pixel is what remains
C6_Witness ==
    /\ op = "advanced" /\ pc = "done"
    /\ \E i, j \in DOMAIN imageConfigs :
          /\ imageConfigs[i].id = 1 /\ imageConfigs[i].zIndex = 1
          /\ imageConfigs[j].id = 2 /\ imageConfigs[j].zIndex = 0
          /\ Covers(imageConfigs[i], <<0, 0>>)
          /\ Covers(imageConfigs[j], <<0, 0>>)
    /\ canvas[<<0, 0>>].from = 1

\* C7: the directives are painted in ascending zIndex and directives of equal
\* zIndex keep the order of the caller's array.
C7_StableAscending ==
    (op = "advanced" /\ pc # "call") =>
        \A i, j \in DOMAIN imageConfigs :
            i < j =>
                \/ imageConfigs[i].zIndex < imageConfigs[j].zIndex
                \/ /\ imageConfigs[i].zIndex = imageConfigs[j].zIndex
                   /\ imageConfigs[i].id < imageConfigs[j].id

\* the canvas after placing the first n of a sequence of placement plans one
\* after another
RECURSIVE PlacedInOrder(_, _)
PlacedInOrder(plans, n) ==
    IF n = 0 THEN NewCanvas(canvasChannel)
    ELSE LET cv == PlacedInOrder(plans, n - 1)
         IN  IF plans[n].plan.status = "copy"
                 THEN CopyTo(cv, plans[n].id, plans[n].plan.rect, plans[n].plan.lay)
                 ELSE cv

\* the placement plans of the call, in paint order, each with the id its
\* pixels carry
PaintPlans ==
    IF op = "mosaic"
        THEN [i \in DOMAIN positions |-> [id |-> i, plan |-> PlaceImageFast(positions[i]),
                                          unref |-> Unreferenced(positions[i])]]
        ELSE [i \in DOMAIN imageConfigs |->
                 [id |-> imageConfigs[i].id, plan |-> ProcessImageFast(imageConfigs[i]),
                  unref |-> Unreferenced(imageConfigs[i])]]

\* C8: the final canvas of a basic mosaic equals the canvas obtained by
\* placing the positions one after another in array order, for any number
\* of positions.
C8_BlitsInPaintOrder ==
    (op = "mosaic" /\ pc = "done") =>
        canvas = PlacedInOrder(PaintPlans, Len(PaintPlans))

\* C9: at most one worker is copying into the canvas at any time.
C9_SingleWriter ==
    Cardinality({t \in DOMAIN workers : workers[t].i # 0}) <= 1

IsReferenced(e) == ~e.unref

\* C10: a directive that refers to no image (negative index, index beyond the
\* end, empty image) raises no error and copies nothing, and the call ends
\* with the canvas of the same call without such directives (the remaining
\* positions of a basic mosaic, at most four, placed in array order).
C10_SkippedAsIfAbsent ==
    /\ \A i \in DOMAIN PaintPlans :
          PaintPlans[i].unref => PaintPlans[i].plan.status = "skip"
    /\ LET rest == SelectSeq(PaintPlans, IsReferenced)
       IN  (/\ pc = "done"
            /\ op = "mosaic" => ~(Len(rest) > ParallelThreshold))
           => canvas = PlacedInOrder(rest, Len(rest))

(***************************************************************************)
(* Claims on the resize step                                               *)
(***************************************************************************)
\* r is n/d rounded to the nearest integer, halves upward (n >= 0, d > 0)
IsRounded(r, n, d) == 2 * r * d - d <= 2 * n /\ 2 * n < 2 * r * d + d

\* C15: the resize step of a directive asks for exactly (width, height) when
\* both are given; when one is given the other is the given one times the
\* original other side over the original given side, rounded; when none is
\* given the image keeps its size and is not resized.
C15_ResizeTarget ==
    (rsOp = "advanced" /\ rsOut.status # "") =>
        LET w == rsReq.width
            h == rsReq.height
        IN  /\ (w > 0 /\ h > 0) =>
                  rsOut.targetWidth = w /\ rsOut.targetHeight = h
            /\ (w > 0 /\ ~(h > 0)) =>
                  /\ rsOut.targetWidth = w
                  /\ IsRounded(rsOut.targetHeight, w * rsSrc.rows, rsSrc.cols)
            /\ (h > 0 /\ ~(w > 0)) =>
                  /\ rsOut.targetHeight = h
                  /\ IsRounded(rsOut.targetWidth, h * rsSrc.cols, rsSrc.rows)
            /\ (~(w > 0) /\ ~(h > 0)) =>
                  /\ rsOut.status = "kept"
                  /\ rsOut.targetWidth = rsSrc.cols
                  /\ rsOut.targetHeight = rsSrc.rows
            /\ (w > 0 \/ h > 0) =>
                  (rsOut.status = "resized"
                      <=> (rsOut.targetWidth > 0 /\ rsOut.targetHeight > 0))

\* a 2x3 image with only width 3 given is resized to 3x5 (4.5 rounds to 5)
C15_Witness ==
    /\ rsOp = "advanced" /\ rsOut.status = "resized"
    /\ rsSrc = [cols |-> 2, rows |-> 3]
    /\ rsReq = [width |-> 3, height |-> -1]
    /\ rsOut.targetWidth = 3 /\ rsOut.targetHeight = 5

\* a request gives a dimension when the engine takes it as given and it is
\* at least one pixel
GivesSize ==
    IF rsOp = "advanced"
        THEN rsReq.width > 0 \/ rsReq.height > 0
        ELSE LET w0 == CalcDim(rsSrc.cols, rsReq.widthMode, rsReq.widthValue)
                 h0 == CalcDim(rsSrc.rows, rsReq.heightMode, rsReq.heightValue)
             IN  w0 >= 0 /\ h0 >= 0 /\ (w0 > 0 \/ h0 > 0)

\* C16: for every source size and every request that gives one or both
\* dimensions, the target size the resize step computes is at least 1 in
\* each dimension.
C16_TargetAtLeastOne ==
    (rsOut.status # "" /\ GivesSize) =>
        rsOut.targetWidth >= 1 /\ rsOut.targetHeight >= 1

(***************************************************************************)
(* Claims on rotation                                                      *)
(***************************************************************************)
\* the angle is within 1e-3 degree of a multiple of 90 degrees
NearQuarterMultiple(angle) ==
    LET m == angle % Quarter IN m < Eps \/ Quarter - m < Eps

\* the multiple of 90 degrees in [0, 360) nearest to the angle
NearestQuarter(angle) == (((angle + Quarter \div 2) \div Quarter) * Quarter) % FullTurn

\* C17: every angle within 1e-3 of a multiple of 90 degrees, positive or
\* negative and of any magnitude, takes the exact path of that multiple
\* modulo 360 (0: size kept; 90 and 270: width and height exchanged; 180:
\* size kept) and never the interpolating affine rotation.
C17_NearQuarterIsExact ==
    (rotLast.path # "" /\ NearQuarterMultiple(rotLast.angle)) =>
        /\ rotLast.path # "affine"
        /\ IF NearestQuarter(rotLast.angle) \in {Quarter, 3 * Quarter}
               THEN rotImg.cols = rotLast.inH /\ rotImg.rows = rotLast.inW
               ELSE rotImg.cols = rotLast.inW /\ rotImg.rows = rotLast.inH

RECURSIVE SumOf(_)
SumOf(q) == IF q = <<>> THEN 0 ELSE Head(q) + SumOf(Tail(q))

\* C18: after any sequence of rotations by 90, 180 and 270 degrees the image
\* is a permutation of the pixels of the first input, and when the angles
\* add up to a multiple of 360 degrees (90 four times, 180 twice, 90 then
\* 270) it is the first input: same size, same pixel at every position.
C18_QuarterTurnsCompose ==
    (rotLog # <<>> /\ \A i \in DOMAIN rotLog : rotLog[i] \in {Deg(90), Deg(180), Deg(270)}) =>
        /\ DOMAIN rotImg.px = Grid(rotImg.cols, rotImg.rows)
        /\ {rotImg.px[p] : p \in DOMAIN rotImg.px} = DOMAIN rotSrc.px
        /\ Cardinality(DOMAIN rotImg.px) = Cardinality(DOMAIN rotSrc.px)
        /\ (SumOf(rotLog) % FullTurn = 0 => rotImg = rotSrc)

\* a 2x1 image rotated by 90 degrees four times is the image again, having
\* been 1x2 on the way
C18_Witness ==
    /\ rotLog = <<Deg(90), Deg(90), Deg(90), Deg(90)>>
    /\ rotSrc = SourceImage(2, 1)
    /\ rotImg = rotSrc
    /\ rotLast.inW = 1 /\ rotLast.inH = 2

\* C19: every rotation that is carried out turns the picture
\* counter-clockwise by the requested angle (to within 1e-3 degree), on the
\* quarter-turn paths and on the affine path alike.
C19_PositiveIsCounterClockwise ==
    rotLast.path # "" =>
        LET want == rotLast.angle % FullTurn
            off  == Abs(rotLast.turn - want)
        IN  off < Eps \/ FullTurn - off < Eps

\* C20: on the affine path the output is at least h*|sin| + w*|cos| wide and
\* h*|cos| + w*|sin| high.
C20_BoundingBoxCovers ==
    rotLast.path = "affine" =>
        LET cosA == AbsCosSin(rotLast.angle)[1]
            sinA == AbsCosSin(rotLast.angle)[2]
        IN  /\ rotImg.cols * 100000000 >= rotLast.inH * sinA + rotLast.inW * cosA
            /\ rotImg.rows * 100000000 >= rotLast.inH * cosA + rotLast.inW * sinA

(***************************************************************************)
(* Claims on placement                                                     *)
(***************************************************************************)
\* the item the placement loop handles next, its transformed size, and the
\* id its pixels carry
NextItem == IF op = "mosaic" THEN positions[nextIdx] ELSE imageConfigs[nextIdx]
ItemSize(d) ==
    IF op = "mosaic"
        THEN <<images[d.arrayIndex + 1].cols, images[d.arrayIndex + 1].rows>>
        ELSE SizeOf(d)
ItemId == IF op = "mosaic" THEN nextIdx ELSE imageConfigs[nextIdx].id
ItemPlan == IF op = "mosaic" THEN PlaceImageFast(NextItem) ELSE ProcessImageFast(NextItem)

\* the loop handles an item that refers to an image
PlacesItem ==
    /\ pc = "placing" /\ nextIdx' = nextIdx + 1
    /\ ~Unreferenced(NextItem)

\* the transformed image does not overlap the canvas
Outside(d) ==
    \/ XOf(d) >= CanvasW \/ YOf(d) >= CanvasH
    \/ XOf(d) + ItemSize(d)[1] <= 0 \/ YOf(d) + ItemSize(d)[2] <= 0

\* C11: handling a directive whose transformed image does not overlap the
\* canvas (top-left at or beyond the right or bottom edge, bottom-right at
\* or before the left or top edge) leaves every canvas pixel as it was.
C11_OutsideLeavesCanvas ==
    [][(PlacesItem /\ Outside(NextItem)) => canvas' = canvas]_vars

\* an image placed exactly at the right edge, over an image that fills the
\* canvas: the canvas still shows the image underneath everywhere
C11_Witness ==
    /\ pc = "done" /\ op = "advanced" /\ Len(imageConfigs) = 2
    /\ XOf(imageConfigs[2]) = CanvasW
    /\ \A p \in DOMAIN canvas : canvas[p].from = imageConfigs[1].id
    /\ imageConfigs[1].arrayIndex = 1

\* C12: a blit copies exactly the intersection of the image rectangle with
\* the canvas: the source rectangle starts at (max(0,-x'), max(0,-y')) and
\* lies inside the image, the destination rectangle starts at (max(0,x'),
\* max(0,y')) and lies inside the canvas, every canvas pixel under the image
\* receives the image pixel at the matching offset, and every other canvas
\* pixel is unchanged.
C12_BlitIsIntersection ==
    [][PlacesItem =>
        LET x == XOf(NextItem)
            y == YOf(NextItem)
            w == ItemSize(NextItem)[1]
            h == ItemSize(NextItem)[2]
            r == ItemPlan.rect
        IN  /\ \A p \in Coords :
                  IF x <= p[1] /\ p[1] < x + w /\ y <= p[2] /\ p[2] < y + h
                      THEN /\ canvas'[p].from = ItemId
                           /\ canvas'[p].sx = p[1] - x
                           /\ canvas'[p].sy = p[2] - y
                      ELSE canvas'[p] = canvas[p]
            /\ ~Outside(NextItem) =>
                  /\ ItemPlan.status = "copy"
                  /\ r.srcX = Max(0, -x) /\ r.srcY = Max(0, -y)
                  /\ r.dstX = Max(0, x) /\ r.dstY = Max(0, y)
                  /\ r.width = Min(w - r.srcX, CanvasW - r.dstX)
                  /\ r.height = Min(h - r.srcY, CanvasH - r.dstY)
                  /\ r.width > 0 /\ r.height > 0
                  /\ r.srcX + r.width <= w /\ r.srcY + r.height <= h
                  /\ r.dstX + r.width <= CanvasW /\ r.dstY + r.height <= CanvasH]_vars

\* a 3x3 image at (-1, -2): the first canvas pixel shows its pixel (1, 2)
\* and the second its pixel (2, 2)
C12_Witness ==
    /\ pc = "done" /\ ~normalized
    /\ images[1] = [cols |-> 3, rows |-> 3]
    /\ canvas[<<0, 0>>].from # 0
    /\ canvas[<<0, 0>>].sx = 1 /\ canvas[<<0, 0>>].sy = 2
    /\ canvas[<<1, 0>>].sx = 2 /\ canvas[<<1, 0>>].sy = 2

\* the integer nearest to n/d (d > 0), a half going away from zero
Nearest(n, d) ==
    CHOOSE r \in (-Abs(n) - 1)..(Abs(n) + 1) :
        /\ 2 * Abs(r * d - n) <= d
        /\ 2 * Abs(r * d - n) = d => Abs(r) * d > Abs(n)

C14_CanvasKeepsShape ==
    (op = "advanced" /\ pc \in {"placing", "done"}) =>
        /\ DOMAIN canvas = Coords
        /\ canvasChannel = DetermineBestCanvasFormatAdvanced(imageChannels)
        /\ \A p \in DOMAIN canvas :
              /\ Len(canvas[p].lay) = Len(Layout(canvasChannel))
              /\ canvas[p].from # 0 => Conforms(canvas[p].lay, canvasChannel)

\* a call with a skipped, a rotated and a resized directive has ended
C14_Witness ==
    /\ op = "advanced" /\ pc = "done"
    /\ \E i, j, k \in DOMAIN imageConfigs :
          /\ imageConfigs[i].arrayIndex = -1
          /\ imageConfigs[j].rotation = Deg(45)
          /\ imageConfigs[k].width = 2
    /\ DOMAIN canvas = Coords
    /\ \E p \in DOMAIN canvas : canvas[p].from # 0

(***************************************************************************)
(* Claims on colours                                                       *)
(***************************************************************************)
\* a string of the form #RRGGBB
IsHexColour(s) == Len(s) = 7 /\ s[1] = "#" /\ \A i \in 2..7 : IsXDigit(s[i])

\* a string of the form rgb(r,g,b) with components 0..255
IsRgbColour(s) ==
    LET f == Sscanf(s)
    IN  /\ \A i \in 1..Len(s) : s[i] # "-" /\ s[i] # "+"
        /\ f.n = 3 /\ Len(s) = f.next /\ s[f.next] = ")"
        /\ {f.r, f.g, f.b} \subseteq 0..255

IsColour(s) == IsHexColour(s) \/ IsRgbColour(s)

\* the colour a well-formed string denotes, read digit by digit
Red(s)   == IF IsHexColour(s) THEN 16 * XDigit(s[2]) + XDigit(s[3]) ELSE Sscanf(s).r
Green(s) == IF IsHexColour(s) THEN 16 * XDigit(s[4]) + XDigit(s[5]) ELSE Sscanf(s).g
Blue(s)  == IF IsHexColour(s) THEN 16 * XDigit(s[6]) + XDigit(s[7]) ELSE Sscanf(s).b

\* the three colour channels of a colour in the order of a format
InOrderOf(s, fmt) ==
    IF fmt = "RGB" \/ fmt = "RGBA" THEN <<Red(s), Green(s), Blue(s)>>
                                   ELSE <<Blue(s), Green(s), Red(s)>>

\* C21: the canvas has 1, 3 or 4 channels according to its format and every
\* pixel is the background colour in the canvas's order: (B,G,R) for BGR,
\* (R,G,B) for RGB, the same followed by alpha 255 for BGRA and RGBA, and the
\* average of the three components (to the nearest integer) for GRAY.
C21_BackgroundInCanvasOrder ==
    (colourOp = "canvas" /\ IsColour(backgroundColor)) =>
        /\ colourOut.status = "ok"
        /\ colourFormat \in {"BGR", "RGB"} =>
               colourOut.px = InOrderOf(backgroundColor, colourFormat)
        /\ colourFormat \in {"BGRA", "RGBA"} =>
               colourOut.px = InOrderOf(backgroundColor, colourFormat) \o <<255>>
        /\ colourFormat = "GRAY" =>
               /\ Len(colourOut.px) = 1
               /\ 3 * colourOut.px[1] - (Red(backgroundColor) + Green(backgroundColor)
                                         + Blue(backgroundColor)) \in -1..1

C21_Witness ==
    /\ colourOp = "canvas" /\ colourFormat = "RGBA"
    /\ backgroundColor = Chars("8", "0", "4", "0", "2", "0")
    /\ colourOut.px = <<128, 64, 32, 255>>

\* the grey values of a colour: the average of its components and its luma
GreyValues(s) ==
    { RoundDiv(Red(s) + Green(s) + Blue(s), 3),
      RoundDiv(299 * Red(s) + 587 * Green(s) + 114 * Blue(s), 1000) }

\* C28: the border pixels of a general-angle rotation are the caller's
\* colour in the image's own format: (B,G,R) for BGR and BGRA, (R,G,B) for
\* RGB and RGBA, and a grey value of that colour for GRAY.
C28_BorderIsCallersColour ==
    (colourOp = "pad" /\ IsColour(backgroundColor)) =>
        /\ colourOut.status = "ok"
        /\ colourFormat # "GRAY" =>
               SubSeq(colourOut.px, 1, 3) = InOrderOf(backgroundColor, colourFormat)
        /\ colourFormat = "GRAY" =>
               /\ Len(colourOut.px) = 1
               /\ colourOut.px[1] \in GreyValues(backgroundColor)

\* C29: ParseColor returns the default, raising nothing, for every string
\* that is neither #RRGGBB nor rgb(r,g,b); for #RRGGBB it returns (B,G,R).
C29_UnparseableGivesDefault ==
    colourOp = "parse" =>
        /\ ~IsColour(backgroundColor) => colourOut = [status |-> "ok", px |-> Black]
        /\ IsHexColour(backgroundColor) =>
               /\ colourOut.status = "ok"
               /\ SubSeq(colourOut.px, 1, 3) = InOrderOf(backgroundColor, "BGR")

(***************************************************************************)
(* Claims on crop                                                          *)
(***************************************************************************)
\* C30: whatever is requested, the rectangle crop extracts from an image of
\* positive size is not empty and lies inside the image.
C30_CropInsideImage ==
    cropOut # NoCrop =>
        /\ cropOut.status = "ok"
        /\ 0 <= cropOut.x /\ cropOut.x <= cropInput.cols - 1
        /\ 0 <= cropOut.y /\ cropOut.y <= cropInput.rows - 1
        /\ 1 <= cropOut.width /\ cropOut.width <= cropInput.cols - cropOut.x
        /\ 1 <= cropOut.height /\ cropOut.height <= cropInput.rows - cropOut.y

C30_Witness ==
    /\ cropOut.status = "ok"
    /\ cropInput = [cols |-> 3, rows |-> 2]
    /\ cropReq.x = 6 /\ cropReq.width = 20 /\ ~cropReq.normalized
    /\ cropReq.y = -2 /\ cropReq.height = 0
    /\ cropOut.x = 2 /\ cropOut.width = 1 /\ cropOut.y = 0 /\ cropOut.height = 1

(***************************************************************************)
(* Claims on concat                                                        *)
(***************************************************************************)
Horizontal == dir \in {"right", "left"}

\* the coordinate of a position or of a size along the cross axis (the rows
\* of a horizontal concatenation) and along the main axis
Cross(p) == IF Horizontal THEN p[2] ELSE p[1]
Main(p) == IF Horizontal THEN p[1] ELSE p[2]
SizeOfTile(i) == <<mats[i].cols, mats[i].rows>>

\* the common size: the largest cross-axis size of the inputs
CommonSize ==
    CHOOSE c \in {Cross(SizeOfTile(i)) : i \in 1..Len(mats)} :
        \A i \in 1..Len(mats) : Cross(SizeOfTile(i)) <= c

\* the pad the strategy puts before tile i
PadBeforeTile(i) ==
    LET delta == CommonSize - Cross(SizeOfTile(i))
    IN  CASE strat = "pad-start" -> delta
          [] strat = "pad-end" -> 0
          [] strat = "pad-both" -> CHOOSE b \in 0..delta : 2 * b <= delta /\ delta < 2 * b + 2

ResultGrid == Grid(concatOut.result.cols, concatOut.result.rows)

\* C23: under a pad strategy the output is as large as the common size
\* across and as the sum of the tiles along; every pixel of every tile is in
\* it once, moved across by the pad before its tile (all of delta for
\* pad-start, none for pad-end, floor(delta/2) for pad-both), and everything
\* else is pad colour.
C23_PadPlacesTiles ==
    (concatOut # NoConcat /\ strat \in {"pad-start", "pad-end", "pad-both"}
        /\ dir \in {"right", "left", "up", "down"}) =>
        /\ concatOut.status = "ok"
        /\ Cross(<<concatOut.result.cols, concatOut.result.rows>>) = CommonSize
        /\ Main(<<concatOut.result.cols, concatOut.result.rows>>)
               = Extent(mats, Len(mats), Horizontal)
        /\ \A p \in ResultGrid :
               LET v == concatOut.result.px[p]
               IN  v # Pad =>
                       /\ v[1] \in 1..Len(mats)
                       /\ Cross(p) = PadBeforeTile(v[1]) + Cross(<<v[2], v[3]>>)
        /\ \A i \in 1..Len(mats) : \A q \in Grid(mats[i].cols, mats[i].rows) :
               Cardinality({p \in ResultGrid :
                               concatOut.result.px[p] = <<i, q[1], q[2]>>}) = 1

C23_Witness ==
    /\ concatOut.status = "ok" /\ dir = "right" /\ strat = "pad-both"
    /\ Len(mats) = 2 /\ mats[1].rows = 1 /\ mats[2].rows = 3
    /\ concatOut.result.px[<<0, 0>>] = Pad
    /\ concatOut.result.px[<<0, 1>>] = <<1, 0, 0>>
    /\ concatOut.result.px[<<0, 2>>] = Pad

\* the input image a pixel comes from (0 for pad colour)
TileOf(v) == Abs(v[1])

\* an image seen in a mirror standing beside it
Mirror(im) ==
    [cols |-> im.cols, rows |-> im.rows,
     px |-> [p \in Grid(im.cols, im.rows) |-> im.px[<<im.cols - 1 - p[1], p[2]>>]]]

\* an image whose pixels name the inputs by their place in the reversed list
Renumbered(im, n) ==
    [cols |-> im.cols, rows |-> im.rows,
     px |-> [p \in Grid(im.cols, im.rows) |->
                LET v == im.px[p]
                IN  IF v = Pad THEN v
                    ELSE IF v[1] > 0 THEN <<n + 1 - v[1], v[2], v[3]>>
                    ELSE <<-(n + 1 + v[1]), v[2], v[3]>>]]

\* C24: right and down lay the tiles out in input order; the output of left
\* is the mirror image of the output of right; the output of up is the
\* output of down on the reversed list, tile contents unchanged.
C24_DirectionsOrderTiles ==
    (concatOut # NoConcat /\ concatOut.status = "ok") =>
        /\ dir \in {"right", "down"} =>
               \A p, q \in ResultGrid :
                   LET i == TileOf(concatOut.result.px[p])
                       j == TileOf(concatOut.result.px[q])
                   IN  (0 < i /\ i < j) => Main(p) < Main(q)
        /\ dir = "left" =>
               concatOut.result = Mirror(ConcatExecute(mats, "right", strat).result)
        /\ dir = "up" =>
               concatOut.result =
                   Renumbered(ConcatExecute(Reverse(mats), "down", strat).result,
                              Len(mats))

C24_Witness ==
    /\ concatOut.status = "ok" /\ dir = "left" /\ strat = "pad-start"
    /\ Len(mats) = 2 /\ mats[1].cols = 2 /\ mats[2].cols = 1
    /\ mats[1].rows = 1 /\ mats[2].rows = 1
    /\ concatOut.result.px[<<0, 0>>] = <<2, 0, 0>>
    /\ concatOut.result.px[<<1, 0>>] = <<1, 1, 0>>
    /\ concatOut.result.px[<<2, 0>>] = <<1, 0, 0>>

\* C25: a direction or strategy name that is not one of the contract's ends
\* the call with an error and no image.
C25_UnknownNameIsFatal ==
    (concatOut # NoConcat
        /\ (dir \notin {"right", "left", "up", "down"}
            \/ strat \notin {"resize", "pad-start", "pad-end", "pad-both"})) =>
        concatOut.status = "error" /\ concatOut.result = NoImage

(***************************************************************************)
(* Claims on blend                                                         *)
(***************************************************************************)
\* the colour of an input image in the format of the output
InOutputFormat(m) == ConvertToTargetFormatShared(m.colour, m.format, blendOut.outputChannel).px

\* C22: the output is as large as the larger of the inputs in each dimension
\* and every channel is A*o + B*(1-o) with o the opacity clamped to [0,1]:
\* exactly image B for any opacity <= 0, exactly image A for any opacity >= 1,
\* for every pair of input formats.
C22_BlendIsWeightedSum ==
    blendOut # NoBlend =>
        /\ blendOut.status = "ok"
        /\ blendOut.cols = Max(mat1.cols, mat2.cols)
        /\ blendOut.rows = Max(mat1.rows, mat2.rows)
        /\ opacity <= 0 => blendOut.colour = InOutputFormat(mat2)
        /\ opacity >= 4 => blendOut.colour = InOutputFormat(mat1)
        /\ (0 < opacity /\ opacity < 4) =>
               \A k \in 1..Len(blendOut.colour) :
                   4 * blendOut.colour[k]
                       - (InOutputFormat(mat1)[k] * opacity
                          + InOutputFormat(mat2)[k] * (4 - opacity)) \in -2..2

C22_Witness ==
    /\ blendOut.status = "ok" /\ opacity = -4
    /\ mat1.format = "GRAY" /\ mat2.format = "BGRA" /\ mat2.colour = <<70, 80, 90, 128>>
    /\ mat1.cols = 2 /\ mat2.cols = 1
    /\ blendOut.cols = 2 /\ blendOut.colour = <<70, 80, 90, 128>>


(***************************************************************************)
(* Claims on the life of a call                                            *)
(***************************************************************************)
CallEnded == callPc \in {"completed", "terminated"}
CallFails ==
    \/ callBg = "throw"
    \/ \E i \in DOMAIN callItems : callItems[i] = "throw"
    \/ (callFormat # "raw" /\ EncodeToFormat(callFormat) = "throw")

\* C26: a queued call ends with exactly one invocation of the callback,
\* carrying either an error and no image or no error and the finished
\* image (every item that copies is painted); a call in which a
\* transform, a conversion or the encoding fails delivers the error only.
\* The callback is never invoked more than once.
C26_CallbackExactlyOnce ==
    /\ Len(callbacks) <= 1
    /\ CallEnded =>
         /\ Len(callbacks) = 1
         /\ callbacks[1].error = ~callbacks[1].image
         /\ callbacks[1].image =>
               callbacks[1].canvas = {i \in DOMAIN callItems : callItems[i] = "copy"}
         /\ CallFails => callbacks[1].error


(***************************************************************************)
(* Claims on the input images                                              *)
(***************************************************************************)
\* C27: no compositing call changes the pixels or the size of an input
\* image: in every state the input buffers hold what the caller passed in,
\* and the image each directive hands to the placement is the transform of
\* the image as passed, whatever earlier directives did with the same index.
C27_InputsAreBorrowed ==
    /\ Len(heap) = Len(passed)
    /\ \A i \in DOMAIN passed : heap[i] = passed[i]
    /\ \A k \in DOMAIN transformed :
          transformed[k] =
              Transformed(passed[borrowOp.directives[k].arrayIndex + 1],
                          borrowOp.directives[k])

\* C27 witness: two directives have resized or rotated the same input, the
\* first of them writing its result over the pixels of its own image.
C27_Witness ==
    /\ borrowOp.kind = "advanced" /\ borrowDone = 2
    /\ borrowOp.directives[1].arrayIndex = borrowOp.directives[2].arrayIndex
    /\ transformed[1] # passed[borrowOp.directives[1].arrayIndex + 1]
    /\ transformed[2] # passed[borrowOp.directives[2].arrayIndex + 1]
    /\ transformed[1].cols = passed[borrowOp.directives[1].arrayIndex + 1].cols
    /\ transformed[1].rows = passed[borrowOp.directives[1].arrayIndex + 1].rows
    /\ \A i \in DOMAIN passed : heap[i] = passed[i]

=============================================================================
